---------------------------- MODULE Spec2Model ----------------------------
(***************************************************************************)
(* Model of the web-service call layer (CoreWSProvider: in-flight call     *)
(* map, 429 retry queue, cooldown and replay timers) and of the message    *)
(* send path (AddonMessagesProvider.sendMessage and the offline queue it   *)
(* writes to).                                                             *)
(*                                                                         *)
(* JavaScript runs handlers to completion on one event loop: every action  *)
(* below is one such handler (a public method up to its first suspension   *)
(* point, a promise continuation, or a timer callback).                    *)
(***************************************************************************)
EXTENDS Integers, Sequences, FiniteSets, TLC

(***************************************************************************)
(* Bounds of the model.                                                    *)
(***************************************************************************)
\* Number of caller invocations of call / callAjax / performHead.
MaxCalls == 2
\* Number of HTTP 429 answers the server gives in one behaviour.
Max429 == 2

\* (method, URL, params) identities a caller may use.
Keys == {"k1", "k2"}
\* Values of the Retry-After header once parsed by parseInt: 0 stands for a
\* missing or unparsable header (parseInt gives NaN, which is falsy like 0).
RetryAfterHeaders == {0, 3}

VARIABLES
    online,         \* CoreApp.isOnline()
    \* ---- CoreWSProvider ----
    ongoingCalls,   \* queueItemId -> promise saved by setPromiseHttp (0: none)
    retryCalls,     \* RetryCall[]
    retryTimeout,   \* seconds of the cooldown in progress, 0 when none
    cooldownTimers, \* pending setTimeout callbacks of performPost (line 588)
    replayTimers,   \* pending setTimeout callbacks of processRetryQueue, in firing order
    dedupTimers,    \* pending setTimeout callbacks of setPromiseHttp
    promises,       \* every promise created, by id
    requests,       \* HTTP requests in flight
    calls,          \* the invocations made so far, in order
    \* ---- history (read by the properties only) ----
    netLog,         \* every HTTP request sent, in order
    arrived,        \* deferred ids of the retry-queue entries, in arrival order
    resent,         \* deferred ids of the entries re-sent, in order
    resentLocked,   \* TRUE once an entry was re-sent while retryTimeout /= 0
    replaySteps,    \* number of replay timer callbacks run
    n429,           \* number of 429 answers given
    \* ---- AddonMessagesProvider, its offline store and the server ----
    msgs,           \* the sendMessage invocations made so far, in order
    store,          \* pending messages of the offline store (all sites)
    nextOrder,      \* ordering key the next stored message gets
    clock,          \* device time, the createdAt of a stored message
    sync,           \* the sync orchestrator of messages
    serverLog,      \* messages the server accepted, in order, with their site
    syncFailed,     \* TRUE once the replay of a message by a sync has failed
    \* ---- one response handled by the success callback of performPost ----
    resp,           \* the body, the preSets of the call and the outcome
    \* ---- the WS cache of the sites and the operations on the message keys ----
    cache,          \* <<site, cacheKey, part>> -> the entry stored for that read
    ops,            \* the reads and invalidations made so far, with their position
    stamp,          \* number of cache writes and invalidations made so far
    \* ---- AddonMessagesGroupConversationsPage ----
    loaded,         \* this.loaded
    tasks,          \* the refreshes, fetches and searches started so far
    events,         \* number of events and user actions the page has handled
    \* ---- AddonModAssignHelperProvider.getSubmissionsUserData ----
    request,        \* the arguments of the call and the list getParticipants returns
    apc,            \* position of the call
    participants,   \* the participants not yet treated
    pending,        \* the submissions waiting for getAssignmentUserMappings
    result,         \* the formatted submissions
    \* ---- AddonMessagesProvider.sortMessages ----
    unsorted,       \* the array passed to sortMessages
    sorted,         \* the array it returns; NotSorted before the call
    \* ---- AddonMessagesProvider.getDiscussions: the last message of each ----
    fetched,        \* the messages the server and the offline store will return
    dpc,            \* position of the call
    discussions,    \* the discussions object: user -> its last message
    \* ---- AddonMessagesProvider.getDiscussion: one page of a discussion ----
    held,           \* the number of messages of each kind the server holds
    gpc,            \* position of the call
    limitnum,       \* params.limitnum
    got,            \* the number of messages received and sent fetched so far
    page,           \* the result: number of messages, canLoadMore
    click,            \* the running or last call of handleClick
    invalidations,    \* sites given to invalidateDiscussionsCache, in order
    navigations,      \* calls of navigateToSitePath, in order
    sizeCall          \* the call of getFileSize: its arguments, position and result

wsVars == <<ongoingCalls, retryCalls, retryTimeout, cooldownTimers, replayTimers,
            dedupTimers, promises, requests, calls, netLog, arrived, resent,
            resentLocked, replaySteps, n429>>

msgVars == <<msgs, store, nextOrder, clock, sync, serverLog, syncFailed>>

respVars == <<resp>>

cacheVars == <<cache, ops, stamp>>

pageVars == <<loaded, tasks, events>>

assignVars == <<request, apc, participants, pending, result>>

sortVars == <<unsorted, sorted>>

recentVars == <<fetched, dpc, discussions>>

discussionVars == <<held, gpc, limitnum, got, page>>

clickVars == <<click, invalidations, navigations>>

sizeVars == <<sizeCall>>

(***************************************************************************)
(* Promises.  A promise is pending, resolved with a value, rejected with   *)
(* an error, or (resolved with another promise) follows that promise.      *)
(***************************************************************************)
Pending == [st |-> "pending", val |-> 0, err |-> ""]
Resolved(v) == [st |-> "resolved", val |-> v, err |-> ""]
Rejected(e) == [st |-> "rejected", val |-> 0, err |-> e]
Follow(p) == [st |-> "follow", val |-> p, err |-> ""]

\* The state a promise is observed in by its then/catch callbacks.
RECURSIVE Outcome(_, _)
Outcome(ps, p) ==
    IF ps[p].st = "follow" THEN Outcome(ps, ps[p].val) ELSE ps[p]

\* CoreUtils.promiseDefer / new Promise: the id of the next promise.
NewPromise(ps) == Len(ps) + 1

(***************************************************************************)
(* CoreWSProvider helpers.                                                 *)
(***************************************************************************)
\* getQueueItemId: method + '#' + md5(url ### params).  The hash is taken as
\* injective on the identities of the model.
getQueueItemId(method, key) == <<method, key>>

ItemIds == {getQueueItemId(m, k) : m \in {"ajax", "head"}, k \in Keys}

\* getPromiseHttp: the saved promise of the item, 0 when there is none.
getPromiseHttp(oc, method, key) == oc[getQueueItemId(method, key)]

\* addToRetryQueue: push a RetryCall holding a new deferred.
addToRetryQueue(rc, key, origin, deferred) ==
    Append(rc, [key |-> key, origin |-> origin, deferred |-> deferred])

\* The cooldown used when the Retry-After header gives none.
DefaultRetryAfter == 5

\* parseInt(error.headers.get('Retry-After'), 10) || 5
parseRetryAfter(h) == IF h = 0 THEN DefaultRetryAfter ELSE h

\* Http.post / sendHTTPRequest: one more request on the wire, logged.
sendRequest(method, key, promise, origin, deferred) ==
    LET req == [rid |-> Len(netLog) + 1, method |-> method, key |-> key,
                promise |-> promise, origin |-> origin, deferred |-> deferred]
    IN  /\ requests' = requests \cup {req}
        /\ netLog' = Append(netLog, [rid |-> req.rid, method |-> method, key |-> key,
                                     promise |-> promise, origin |-> origin,
                                     deferred |-> deferred, answer |-> "none"])

\* The then() of performPost on a 429 answer, lines 582-596: the cooldown is
\* started only when none is in progress.  Gives the new retryTimeout and the
\* number of cooldown timers pending.
startCooldownAlways(rt, timers, header) ==
    [retryTimeout |-> parseRetryAfter(header), cooldownTimers |-> timers + 1]

startCooldownNoTimer(rt, timers, header) ==
    [retryTimeout |-> parseRetryAfter(header), cooldownTimers |-> timers]

startCooldown(rt, timers, header) ==
    IF rt = 0
    THEN [retryTimeout |-> parseRetryAfter(header), cooldownTimers |-> timers + 1]
    ELSE [retryTimeout |-> rt, cooldownTimers |-> timers]

\* What the promise of performPost becomes on a 429 answer, line 598.
overloadRejects(retryPromise) == Rejected("serverconnection")

overloadResult(retryPromise) == Follow(retryPromise)

\* processRetryQueue: take the first call off the queue and arm its replay
\* timer, unless the queue is empty or a cooldown is in progress.
processRetryQueueLifo(rc, rt, timers) ==
    IF Len(rc) > 0 /\ rt = 0
    THEN [retryCalls |-> SubSeq(rc, 1, Len(rc) - 1),
          replayTimers |-> Append(timers, rc[Len(rc)])]
    ELSE [retryCalls |-> rc, replayTimers |-> timers]

processRetryQueue(rc, rt, timers) ==
    IF Len(rc) > 0 /\ rt = 0
    THEN [retryCalls |-> Tail(rc), replayTimers |-> Append(timers, Head(rc))]
    ELSE [retryCalls |-> rc, replayTimers |-> timers]

\* The earlier invocations of the same kind and identity still pending.
Overlapping(kind, key) ==
    {i \in 1..Len(calls) :
        /\ calls[i].kind = kind /\ calls[i].key = key
        /\ calls[i].promise /= 0
        /\ Outcome(promises, calls[i].promise).st = "pending"}

Invocation(kind, key, promise, thrown) ==
    [kind |-> kind, key |-> key, promise |-> promise, thrown |-> thrown,
     online |-> online, overlapped |-> Overlapping(kind, key)]

\* call, line 119: "there are some ongoing retry calls, wait for timeout".
callNeverLocked(rc) == FALSE

callLocked(rc) == Len(rc) > 0

(***************************************************************************)
(* CoreWSProvider operations.                                              *)
(***************************************************************************)
\* call(method, data, preSets), preSets given.
call(key) ==
    /\ Len(calls) < MaxCalls
    /\ LET p == NewPromise(promises) IN
       IF ~online
       THEN \* throw new CoreError(core.networkerrormsg)
            /\ calls' = Append(calls, Invocation("call", key, 0, "networkerrormsg"))
            /\ UNCHANGED <<promises, requests, netLog, retryCalls, arrived>>
       ELSE IF callLocked(retryCalls)
       THEN \* Calls locked: join the retry queue.
            /\ promises' = Append(promises, Pending)
            /\ retryCalls' = addToRetryQueue(retryCalls, key, Len(calls) + 1, p)
            /\ arrived' = Append(arrived, p)
            /\ calls' = Append(calls, Invocation("call", key, p, ""))
            /\ UNCHANGED <<requests, netLog>>
       ELSE \* performPost
            /\ promises' = Append(promises, Pending)
            /\ sendRequest("post", key, p, Len(calls) + 1, 0)
            /\ calls' = Append(calls, Invocation("call", key, p, ""))
            /\ UNCHANGED <<retryCalls, arrived>>
    /\ UNCHANGED <<online, msgVars, respVars, cacheVars, pageVars, assignVars, sortVars, recentVars, discussionVars, clickVars, sizeVars, ongoingCalls, retryTimeout, cooldownTimers, replayTimers,
                   dedupTimers, resent, resentLocked, replaySteps, n429>>

\* setPromiseHttp: save the promise under its item id and arm the timer that
\* drops it after the request timeout.
setPromiseHttp(promise, method, key) ==
    /\ ongoingCalls' = [ongoingCalls EXCEPT ![getQueueItemId(method, key)] = promise]
    /\ dedupTimers' = dedupTimers \cup
                        {[promise |-> promise, item |-> getQueueItemId(method, key)]}

\* callAjax(method, data, preSets), preSets.siteUrl given.
callAjax(key) ==
    /\ Len(calls) < MaxCalls
    /\ LET saved == getPromiseHttp(ongoingCalls, "ajax", key)
           p == NewPromise(promises)
       IN  IF saved /= 0
           THEN /\ calls' = Append(calls, Invocation("ajax", key, saved, ""))
                /\ UNCHANGED <<promises, requests, netLog, ongoingCalls, dedupTimers>>
           ELSE IF ~online
           THEN \* performAjax throws CoreAjaxError(core.networkerrormsg)
                /\ calls' = Append(calls, Invocation("ajax", key, 0, "networkerrormsg"))
                /\ UNCHANGED <<promises, requests, netLog, ongoingCalls, dedupTimers>>
           ELSE /\ promises' = Append(promises, Pending)
                /\ sendRequest("ajax", key, p, Len(calls) + 1, 0)
                /\ setPromiseHttp(p, "ajax", key)
                /\ calls' = Append(calls, Invocation("ajax", key, p, ""))
    /\ UNCHANGED <<online, msgVars, respVars, cacheVars, pageVars, assignVars, sortVars, recentVars, discussionVars, clickVars, sizeVars, retryCalls, retryTimeout, cooldownTimers, replayTimers,
                   arrived, resent, resentLocked, replaySteps, n429>>

\* performHead(url): no connectivity check is made before the request.
performHead(key) ==
    /\ Len(calls) < MaxCalls
    /\ LET saved == getPromiseHttp(ongoingCalls, "head", key)
           p == NewPromise(promises)
       IN  IF saved /= 0
           THEN /\ calls' = Append(calls, Invocation("head", key, saved, ""))
                /\ UNCHANGED <<promises, requests, netLog, ongoingCalls, dedupTimers>>
           ELSE /\ promises' = Append(promises, Pending)
                /\ sendRequest("head", key, p, Len(calls) + 1, 0)
                /\ setPromiseHttp(p, "head", key)
                /\ calls' = Append(calls, Invocation("head", key, p, ""))
    /\ UNCHANGED <<online, msgVars, respVars, cacheVars, pageVars, assignVars, sortVars, recentVars, discussionVars, clickVars, sizeVars, retryCalls, retryTimeout, cooldownTimers, replayTimers,
                   arrived, resent, resentLocked, replaySteps, n429>>

\* syncCall(method, data, preSets), preSets given: a synchronous
\* XMLHttpRequest, sent and answered within the call.
syncCallNoOnlineCheck(key, ok) ==
    /\ Len(calls) < MaxCalls
    /\ netLog' = Append(netLog, [rid |-> Len(netLog) + 1, method |-> "sync",
                                 key |-> key, promise |-> 0,
                                 origin |-> Len(calls) + 1, deferred |-> 0,
                                 answer |-> IF ok THEN "ok" ELSE "fail"])
    /\ calls' = Append(calls, Invocation("sync", key, 0,
                                         IF ok THEN "" ELSE "serverconnection"))
    /\ UNCHANGED <<online, msgVars, respVars, cacheVars, pageVars, assignVars, sortVars, recentVars, discussionVars, clickVars, sizeVars, ongoingCalls, retryCalls, retryTimeout, cooldownTimers,
                   replayTimers, dedupTimers, promises, requests, arrived, resent,
                   resentLocked, replaySteps, n429>>

syncCall(key, ok) ==
    /\ Len(calls) < MaxCalls
    /\ IF ~online
       THEN \* throw new CoreError(core.networkerrormsg)
            /\ calls' = Append(calls, Invocation("sync", key, 0, "networkerrormsg"))
            /\ UNCHANGED netLog
       ELSE /\ netLog' = Append(netLog, [rid |-> Len(netLog) + 1, method |-> "sync",
                                         key |-> key, promise |-> 0,
                                         origin |-> Len(calls) + 1, deferred |-> 0,
                                         answer |-> IF ok THEN "ok" ELSE "fail"])
            /\ calls' = Append(calls, Invocation("sync", key, 0,
                                                 IF ok THEN "" ELSE "serverconnection"))
    /\ UNCHANGED <<online, msgVars, respVars, cacheVars, pageVars, assignVars, sortVars, recentVars, discussionVars, clickVars, sizeVars, ongoingCalls, retryCalls, retryTimeout, cooldownTimers,
                   replayTimers, dedupTimers, promises, requests, arrived, resent,
                   resentLocked, replaySteps, n429>>

Answer(r, a) == netLog' = [netLog EXCEPT ![r.rid].answer = a]

\* performPost, success callback: the response passes the checks and is
\* returned.  Every request yields its own value.
PostOk(r) ==
    /\ r \in requests /\ r.method = "post"
    /\ requests' = requests \ {r}
    /\ promises' = [promises EXCEPT ![r.promise] = Resolved(r.rid)]
    /\ Answer(r, "ok")
    /\ UNCHANGED <<online, msgVars, respVars, cacheVars, pageVars, assignVars, sortVars, recentVars, discussionVars, clickVars, sizeVars, ongoingCalls, retryCalls, retryTimeout, cooldownTimers,
                   replayTimers, dedupTimers, calls, arrived, resent, resentLocked,
                   replaySteps, n429>>

\* performPost, error callback, error.status == 429.
PostOverload(r, header) ==
    /\ r \in requests /\ r.method = "post"
    /\ n429 < Max429
    /\ n429' = n429 + 1
    /\ requests' = requests \ {r}
    /\ LET d == NewPromise(promises)
           cd == startCooldown(retryTimeout, cooldownTimers, header)
       IN  /\ retryCalls' = addToRetryQueue(retryCalls, r.key, r.origin, d)
           /\ arrived' = Append(arrived, d)
           /\ promises' = Append([promises EXCEPT ![r.promise] = overloadResult(d)],
                                 Pending)
           /\ retryTimeout' = cd.retryTimeout
           /\ cooldownTimers' = cd.cooldownTimers
    /\ Answer(r, "429")
    /\ UNCHANGED <<online, msgVars, respVars, cacheVars, pageVars, assignVars, sortVars, recentVars, discussionVars, clickVars, sizeVars, ongoingCalls, replayTimers, dedupTimers, calls, resent,
                   resentLocked, replaySteps>>

\* performPost, error callback, any other failure (another status, a timeout).
PostFailRetries(r) ==
    /\ r \in requests /\ r.method = "post"
    /\ requests' = requests \ {r}
    /\ LET d == NewPromise(promises)
       IN  /\ retryCalls' = addToRetryQueue(retryCalls, r.key, r.origin, d)
           /\ arrived' = Append(arrived, d)
           /\ promises' = Append([promises EXCEPT ![r.promise] = Follow(d)], Pending)
    /\ Answer(r, "fail")
    /\ UNCHANGED <<online, msgVars, respVars, cacheVars, pageVars, assignVars, sortVars, recentVars, discussionVars, clickVars, sizeVars, ongoingCalls, retryTimeout, cooldownTimers,
                   replayTimers, dedupTimers, calls, resent, resentLocked,
                   replaySteps, n429>>

PostFail(r) ==
    /\ r \in requests /\ r.method = "post"
    /\ requests' = requests \ {r}
    /\ promises' = [promises EXCEPT ![r.promise] = Rejected("serverconnection")]
    /\ Answer(r, "fail")
    /\ UNCHANGED <<online, msgVars, respVars, cacheVars, pageVars, assignVars, sortVars, recentVars, discussionVars, clickVars, sizeVars, ongoingCalls, retryCalls, retryTimeout, cooldownTimers,
                   replayTimers, dedupTimers, calls, arrived, resent, resentLocked,
                   replaySteps, n429>>

\* The cooldown timer of performPost fires, lines 588-593.  A replay timer
\* pending now was armed (for 200 ms) before this timer was (for at least
\* 1000 ms), so it has fired first.
CooldownExpired ==
    /\ cooldownTimers > 0
    /\ replayTimers = <<>>
    /\ cooldownTimers' = cooldownTimers - 1
    /\ retryTimeout' = 0
    /\ LET q == processRetryQueue(retryCalls, 0, replayTimers)
       IN  /\ retryCalls' = q.retryCalls
           /\ replayTimers' = q.replayTimers
    /\ UNCHANGED <<online, msgVars, respVars, cacheVars, pageVars, assignVars, sortVars, recentVars, discussionVars, clickVars, sizeVars, ongoingCalls, dedupTimers, promises, requests, calls, netLog,
                   arrived, resent, resentLocked, replaySteps, n429>>

\* The replay timer of processRetryQueue fires, lines 613-616.
ReplayStep ==
    /\ replayTimers /= <<>>
    /\ LET c == Head(replayTimers)
           p == NewPromise(promises)
           q == processRetryQueue(retryCalls, retryTimeout, Tail(replayTimers))
       IN  /\ promises' = Append([promises EXCEPT ![c.deferred] = Follow(p)], Pending)
           /\ sendRequest("post", c.key, p, c.origin, c.deferred)
           /\ resent' = Append(resent, c.deferred)
           /\ resentLocked' = (resentLocked \/ retryTimeout /= 0)
           /\ retryCalls' = q.retryCalls
           /\ replayTimers' = q.replayTimers
    /\ replaySteps' = replaySteps + 1
    /\ UNCHANGED <<online, msgVars, respVars, cacheVars, pageVars, assignVars, sortVars, recentVars, discussionVars, clickVars, sizeVars, ongoingCalls, retryTimeout, cooldownTimers, dedupTimers,
                   calls, arrived, n429>>

\* An ajax or head request settles and its item stays in the map.
HttpSettledKeepsEntry(r, ok) ==
    /\ r \in requests /\ r.method \in {"ajax", "head"}
    /\ requests' = requests \ {r}
    /\ promises' = [promises EXCEPT ![r.promise] =
                        IF ok THEN Resolved(r.rid) ELSE Rejected("serverconnection")]
    /\ Answer(r, IF ok THEN "ok" ELSE "fail")
    /\ dedupTimers' = {t \in dedupTimers : t.promise /= r.promise}
    /\ UNCHANGED <<online, msgVars, respVars, cacheVars, pageVars, assignVars, sortVars, recentVars, discussionVars, clickVars, sizeVars, ongoingCalls, retryCalls, retryTimeout, cooldownTimers,
                   replayTimers, calls, arrived, resent, resentLocked, replaySteps, n429>>

\* An ajax or head request settles; the finally() of setPromiseHttp then drops
\* the item and clears its timer.
HttpSettled(r, ok) ==
    /\ r \in requests /\ r.method \in {"ajax", "head"}
    /\ requests' = requests \ {r}
    /\ promises' = [promises EXCEPT ![r.promise] =
                        IF ok THEN Resolved(r.rid) ELSE Rejected("serverconnection")]
    /\ Answer(r, IF ok THEN "ok" ELSE "fail")
    /\ ongoingCalls' = [ongoingCalls EXCEPT ![getQueueItemId(r.method, r.key)] = 0]
    /\ dedupTimers' = {t \in dedupTimers : t.promise /= r.promise}
    /\ UNCHANGED <<online, msgVars, respVars, cacheVars, pageVars, assignVars, sortVars, recentVars, discussionVars, clickVars, sizeVars, retryCalls, retryTimeout, cooldownTimers, replayTimers,
                   calls, arrived, resent, resentLocked, replaySteps, n429>>

\* The timer of setPromiseHttp fires before the request has settled.
DedupTimeout(t) ==
    /\ t \in dedupTimers
    /\ dedupTimers' = dedupTimers \ {t}
    /\ ongoingCalls' = [ongoingCalls EXCEPT ![t.item] = 0]
    /\ UNCHANGED <<online, msgVars, respVars, cacheVars, pageVars, assignVars, sortVars, recentVars, discussionVars, clickVars, sizeVars, retryCalls, retryTimeout, cooldownTimers, replayTimers,
                   promises, requests, calls, netLog, arrived, resent, resentLocked,
                   replaySteps, n429>>

\* The device connects or disconnects.
NetworkChange ==
    /\ online' = ~online
    /\ UNCHANGED <<wsVars, msgVars, respVars, cacheVars, pageVars, assignVars, sortVars, recentVars, discussionVars, clickVars, sizeVars>>

InitWS ==
    /\ online = TRUE
    /\ ongoingCalls = [i \in ItemIds |-> 0]
    /\ retryCalls = <<>>
    /\ retryTimeout = 0
    /\ cooldownTimers = 0
    /\ replayTimers = <<>>
    /\ dedupTimers = {}
    /\ promises = <<>>
    /\ requests = {}
    /\ calls = <<>>
    /\ netLog = <<>>
    /\ arrived = <<>>
    /\ resent = <<>>
    /\ resentLocked = FALSE
    /\ replaySteps = 0
    /\ n429 = 0

(***************************************************************************)
(* The success callback of performPost, lines 522-577: the checks a        *)
(* response body goes through before it is returned to the caller.         *)
(*                                                                         *)
(* A body is a JavaScript value: its typeof and its content.  With         *)
(* typeExpected 'number', 'boolean' or 'string' the request is made with   *)
(* responseType 'text' (lines 509-511) and the body is the text the server *)
(* sent, or null; otherwise it is the parsed JSON.                         *)
(***************************************************************************)
Body(type, val) == [type |-> type, val |-> val]

\* The content of a JSON object: empty, or with an exception or a debuginfo
\* field; as a text body, the same JSON unparsed.
ObjectContents == {"{}", "{exception}", "{debuginfo}"}

JsonBodies ==
    {Body("object", "null")} \cup {Body("object", c) : c \in ObjectContents}
    \cup {Body("number", v) : v \in {"0", "7"}}
    \cup {Body("boolean", v) : v \in {"false", "true"}}
    \cup {Body("string", v) : v \in {"", "abc"}}

TextBodies ==
    {Body("object", "null")}
    \cup {Body("string", v) : v \in {"", " ", "0", "7", "abc", "true", "false"}}
    \cup {Body("string", c) : c \in ObjectContents}

\* preSets.typeExpected and preSets.responseExpected as the caller gives
\* them; "" stands for undefined.
TypesExpected == {"", "object", "number", "boolean", "string"}
ResponsesExpected == {"", "true", "false"}

\* call, lines 108-111: the defaults of the preSets.
typeExpectedOf(t) == IF t = "" THEN "object" ELSE t
responseExpectedOf(r) == IF r = "" THEN TRUE ELSE r = "true"

\* performPost, lines 509-511: the bodies a request with these preSets gets.
BodiesFor(t) ==
    IF typeExpectedOf(t) \in {"number", "boolean", "string"} THEN TextBodies
    ELSE JsonBodies

\* !data
Falsy(d) ==
    \/ d.type = "undefined"
    \/ d.type = "object" /\ d.val = "null"
    \/ d.type = "number" /\ d.val \in {"0", "NaN"}
    \/ d.type = "boolean" /\ d.val = "false"
    \/ d.type = "string" /\ d.val = ""

\* Number(data) of a string: the number its text denotes, 0 for blank text,
\* NaN otherwise.
NumberOf(text) ==
    IF text \in {"0", "7"} THEN text
    ELSE IF text \in {"", " "} THEN "0"
    ELSE "NaN"

\* typeof data.exception !== 'undefined', typeof data.debuginfo != 'undefined':
\* only an object has properties of its own.
HasField(d, field) == d.type = "object" /\ d.val = "{" \o field \o "}"

\* Lines 530-560: a body whose type is not the expected one is parsed when it
\* is a string and a number or a boolean is expected, and refused otherwise.
coerceNothing(d, typeExpected) == [ok |-> TRUE, val |-> d]

coerce(d, typeExpected) ==
    IF d.type = typeExpected THEN [ok |-> TRUE, val |-> d]
    ELSE IF d.type = "string" /\ typeExpected = "number"
    THEN IF NumberOf(d.val) = "NaN" THEN [ok |-> FALSE, val |-> d]
         ELSE [ok |-> TRUE, val |-> Body("number", NumberOf(d.val))]
    ELSE IF d.type = "string" /\ typeExpected = "boolean"
    THEN IF d.val \in {"true", "false"} THEN [ok |-> TRUE, val |-> Body("boolean", d.val)]
         ELSE [ok |-> FALSE, val |-> d]
    ELSE [ok |-> FALSE, val |-> d]

\* Lines 563-574: the error markers of a response.
errorMarker(d) ==
    IF HasField(d, "exception") THEN "wserror"
    ELSE IF HasField(d, "debuginfo") THEN "debuginfo"
    ELSE ""

\* The success callback as a whole: what the promise of performPost settles
\* with.
checkResponse(body, typeExpected, responseExpected) ==
    LET data == IF Falsy(body) /\ ~responseExpected THEN Body("object", "{}") ELSE body
        c == coerce(data, typeExpected)
    IN  IF Falsy(data) THEN [st |-> "rejected", err |-> "serverconnection", val |-> data]
        ELSE IF ~c.ok THEN [st |-> "rejected", err |-> "errorinvalidresponse", val |-> data]
        ELSE IF errorMarker(c.val) /= ""
        THEN [st |-> "rejected", err |-> errorMarker(c.val), val |-> data]
        ELSE [st |-> "resolved", err |-> "", val |-> c.val]

NoOutcome == [st |-> "none", err |-> "", val |-> Body("undefined", "")]

NoResponse ==
    [body |-> Body("undefined", ""), typeExpected |-> "", responseExpected |-> "",
     out |-> NoOutcome]

\* A call with its preSets, answered with a body.
InitResponse ==
    \E t \in TypesExpected, r \in ResponsesExpected :
        \E b \in BodiesFor(t) :
            resp = [body |-> b, typeExpected |-> t, responseExpected |-> r,
                    out |-> NoOutcome]

\* The success callback runs.
performPostThen ==
    /\ resp /= NoResponse /\ resp.out = NoOutcome
    /\ resp' = [resp EXCEPT !.out = checkResponse(resp.body,
                                                   typeExpectedOf(resp.typeExpected),
                                                   responseExpectedOf(resp.responseExpected))]
    /\ UNCHANGED <<online, wsVars, msgVars, cacheVars, pageVars, assignVars, sortVars, recentVars, discussionVars, clickVars, sizeVars>>

(***************************************************************************)
(* AddonMessagesProvider.sendMessage.                                      *)
(*                                                                         *)
(* The offline store (AddonMessagesOfflineProvider), the sites registry    *)
(* and the sync of the stored messages are collaborators of the provider.  *)
(***************************************************************************)
Users == {"u1", "u2"}
Sites == {"s1", "s2"}
\* The (toUserId, siteId) arguments of the callers: "" stands for an omitted
\* siteId.  Two recipients on the current site, one of them also on another.
Targets == {<<"u1", "">>, <<"u2", "">>, <<"u1", "s2">>}

\* Number of sendMessage invocations.
MaxMsgs == 2
\* Last value of the device clock.
MaxTime == 1

\* The createdAt of an invocation that stored no entry.
NoTime == 0 - 1

\* sitesProvider.getCurrentSiteId()
getCurrentSiteId == "s1"

(***************************************************************************)
(* The cache keys of AddonMessagesProvider, its reads through the cache    *)
(* and its invalidations.  The cache itself (CoreSite.read and             *)
(* CoreSite.invalidateWsCacheForKey) is a collaborator of the provider:    *)
(* an entry is stored per request, tagged with the cache key of the        *)
(* preSets; a read returns a valid entry, and fetches and stores           *)
(* otherwise; invalidating a key marks every entry tagged with it.         *)
(***************************************************************************)
\* Number of reads and invalidations.
MaxOps == 2

ROOT_CACHE_KEY == "mmaMessages:"

getCacheKeyForContacts == ROOT_CACHE_KEY \o "contacts"
getCacheKeyForDiscussion(userId) == ROOT_CACHE_KEY \o "discussion:" \o userId
getCacheKeyForDiscussions == ROOT_CACHE_KEY \o "discussions"

CacheKeys ==
    {getCacheKeyForContacts, getCacheKeyForDiscussions}
    \cup {getCacheKeyForDiscussion(u) : u \in Users}

\* The requests made under a key: the messages received and the messages
\* sent for the discussion keys, one request for the contacts.
PartsOf(key) ==
    IF key = getCacheKeyForContacts THEN {"all"} ELSE {"received", "sent"}

CacheIds == {<<site, key, part>> \in Sites \X CacheKeys \X {"all", "received", "sent"} :
                part \in PartsOf(key)}

NoEntry == [at |-> NoTime, valid |-> FALSE]

\* sitesProvider.getSite(siteId): the current site when siteId is omitted.
getSite(siteId) == IF siteId = "" THEN getCurrentSiteId ELSE siteId

\* site.invalidateWsCacheForKey(key): every stored entry of the key is
\* marked; nothing is deleted and an absent entry stays absent.
invalidateWsCacheForKey(c, site, key) ==
    [id \in CacheIds |->
        IF id[1] = site /\ id[2] = key THEN [c[id] EXCEPT !.valid = FALSE] ELSE c[id]]

\* The operations and the reads each of them makes.
Reads == {"getDiscussion", "getDiscussions", "readContacts"}
Invalidations ==
    {"invalidateDiscussionCache", "invalidateDiscussionsCache", "invalidateContactsCache"}

\* The cache key an invalidation is about to mark.  invalidateDiscussionsCache
\* marks the discussions and then calls invalidateContactsCache(site.getId()).
invalidatedKeyDiscussionsNotContacts(kind, user, pc) == getCacheKeyForDiscussions

invalidatedKeyAlwaysContacts(kind, user, pc) == getCacheKeyForContacts

invalidatedKeyOfList(kind, user, pc) ==
    IF pc = "contacts" THEN getCacheKeyForContacts
    ELSE getCacheKeyForDiscussions

invalidatedKey(kind, user, pc) ==
    IF pc = "contacts" THEN getCacheKeyForContacts
    ELSE IF kind = "invalidateDiscussionCache" THEN getCacheKeyForDiscussion(user)
    ELSE getCacheKeyForDiscussions

\* The position of an invalidation after a step that succeeded.
afterInvalidation(kind, pc) ==
    IF kind = "invalidateDiscussionsCache" /\ pc = "key" THEN "contacts" ELSE "done"

\* preSets.cacheKey of a read.
cacheKeyOf(kind, user) ==
    IF kind = "getDiscussion" THEN getCacheKeyForDiscussion(user)
    ELSE IF kind = "getDiscussions" THEN getCacheKeyForDiscussions
    ELSE getCacheKeyForContacts

\* The request a read is at, and the site it is made on: getDiscussion asks
\* for the received messages on site.getId() and for the sent ones on siteId;
\* getDiscussions asks for the sent ones without a site id.
partOf(kind, pc) ==
    IF kind = "readContacts" THEN "all"
    ELSE IF pc \in {"check1", "wait1"} THEN "received" ELSE "sent"

siteOfPart(kind, siteId, pc) ==
    IF kind = "getDiscussions" /\ pc \in {"check2", "wait2"} THEN getSite("")
    ELSE getSite(siteId)

\* The position of a read once the request it is at has been served.
afterPart(kind, pc) ==
    IF kind /= "readContacts" /\ pc \in {"check1", "wait1"} THEN "check2" ELSE "done"

\* getDiscussion, lines 139-146: older messages are read past the cache.
usesCache(kind, older) == ~(kind = "getDiscussion" /\ older)

Operation(kind, user, siteId, older, pc) ==
    [kind |-> kind, user |-> user, siteId |-> siteId, older |-> older, pc |-> pc,
     startedAt |-> stamp, doneAt |-> NoTime, markedAt |-> NoTime,
     served |-> {}, fetched |-> FALSE, offline |-> ~online, err |-> "", arg |-> ""]

CacheEntryId(o) ==
    <<siteOfPart(o.kind, o.siteId, o.pc), cacheKeyOf(o.kind, o.user), partOf(o.kind, o.pc)>>

\* The read goes on with the stored entry, valid or not.
ServeStored(o) ==
    [o EXCEPT !.pc = afterPart(o.kind, o.pc),
              !.served = o.served \cup {[id |-> CacheEntryId(o),
                                          at |-> cache[CacheEntryId(o)].at]},
              !.offline = o.offline \/ ~online]

\* The live request of a read has failed: the stored entry is served when the
\* device is offline and the read allows it, and the read rejects otherwise.
OnReadFailure(o) ==
    IF ~online /\ usesCache(o.kind, o.older) /\ cache[CacheEntryId(o)] /= NoEntry
    THEN ServeStored(o)
    ELSE [o EXCEPT !.pc = "rejected", !.offline = o.offline \/ ~online]

\* site.read looks the request up: a valid entry is returned; otherwise the
\* request is sent, and fails at once without connection.
CacheChecked(o) ==
    IF o.pc \notin {"check1", "check2"} THEN o
    ELSE IF usesCache(o.kind, o.older) /\ cache[CacheEntryId(o)] /= NoEntry
            /\ cache[CacheEntryId(o)].valid
    THEN ServeStored(o)
    ELSE IF online
    THEN [o EXCEPT !.pc = IF o.pc = "check1" THEN "wait1" ELSE "wait2", !.fetched = TRUE]
    ELSE OnReadFailure(o)

\* The read runs until it waits for a response or returns.
RunRead(o) == CacheChecked(CacheChecked(o))

\* The read is invoked.
StartRead(kind, user, siteId, older) ==
    /\ Len(ops) < MaxOps
    /\ ops' = Append(ops, RunRead(Operation(kind, user, siteId, older, "check1")))
    /\ UNCHANGED <<cache, stamp>>

getDiscussion(userId, older, siteId) ==
    /\ StartRead("getDiscussion", userId, siteId, older)
    /\ UNCHANGED <<online, wsVars, msgVars, respVars, pageVars, assignVars, sortVars, recentVars, discussionVars, clickVars, sizeVars>>

getDiscussions(siteId) ==
    /\ StartRead("getDiscussions", "", siteId, FALSE)
    /\ UNCHANGED <<online, wsVars, msgVars, respVars, pageVars, assignVars, sortVars, recentVars, discussionVars, clickVars, sizeVars>>

readContacts(siteId) ==
    /\ StartRead("readContacts", "", siteId, FALSE)
    /\ UNCHANGED <<online, wsVars, msgVars, respVars, pageVars, assignVars, sortVars, recentVars, discussionVars, clickVars, sizeVars>>

\* The request of a read is answered: the response is stored and returned,
\* and the read goes on.
ReadAnswered(i, ok) ==
    /\ i \in 1..Len(ops) /\ ops[i].pc \in {"wait1", "wait2"}
    /\ ok => online
    /\ LET o == ops[i] IN
       IF ok
       THEN /\ ops' = [ops EXCEPT ![i] = RunRead([o EXCEPT !.pc = afterPart(o.kind, o.pc)])]
            /\ IF usesCache(o.kind, o.older)
               THEN /\ cache' = [cache EXCEPT ![CacheEntryId(o)] =
                                        [at |-> stamp + 1, valid |-> TRUE]]
                    /\ stamp' = stamp + 1
               ELSE UNCHANGED <<cache, stamp>>
       ELSE /\ ops' = [ops EXCEPT ![i] = RunRead(OnReadFailure(o))]
            /\ UNCHANGED <<cache, stamp>>
    /\ UNCHANGED <<online, wsVars, msgVars, respVars, pageVars, assignVars, sortVars, recentVars, discussionVars, clickVars, sizeVars>>

\* The invalidation is invoked.
StartInvalidation(kind, user, siteId) ==
    /\ Len(ops) < MaxOps
    /\ ops' = Append(ops, Operation(kind, user, siteId, FALSE,
                                     IF kind = "invalidateContactsCache" THEN "contacts"
                                     ELSE "key"))
    /\ UNCHANGED <<cache, stamp>>

invalidateContactsCache(siteId) ==
    /\ StartInvalidation("invalidateContactsCache", "", siteId)
    /\ UNCHANGED <<online, wsVars, msgVars, respVars, pageVars, assignVars, sortVars, recentVars, discussionVars, clickVars, sizeVars>>

invalidateDiscussionCache(userId, siteId) ==
    /\ StartInvalidation("invalidateDiscussionCache", userId, siteId)
    /\ UNCHANGED <<online, wsVars, msgVars, respVars, pageVars, assignVars, sortVars, recentVars, discussionVars, clickVars, sizeVars>>

invalidateDiscussionsCache(siteId) ==
    /\ StartInvalidation("invalidateDiscussionsCache", "", siteId)
    /\ UNCHANGED <<online, wsVars, msgVars, respVars, pageVars, assignVars, sortVars, recentVars, discussionVars, clickVars, sizeVars>>

\* site.invalidateWsCacheForKey has answered: the entries are marked, or the
\* storage has failed and the invalidation rejects.
InvalidationStep(i, ok) ==
    /\ i \in 1..Len(ops) /\ ops[i].kind \in Invalidations
    /\ ops[i].pc \in {"key", "contacts"}
    /\ LET o == ops[i]
           next == afterInvalidation(o.kind, o.pc)
       IN  IF ok
           THEN /\ cache' = invalidateWsCacheForKey(cache, getSite(o.siteId),
                                                     invalidatedKey(o.kind, o.user, o.pc))
                /\ stamp' = stamp + 1
                /\ ops' = [ops EXCEPT ![i].pc = next,
                                      ![i].markedAt = IF o.markedAt = NoTime THEN stamp + 1
                                                      ELSE o.markedAt,
                                      ![i].doneAt = IF next = "done" THEN stamp + 1
                                                    ELSE NoTime]
           ELSE /\ ops' = [ops EXCEPT ![i].pc = "rejected", ![i].err = "storage"]
                /\ UNCHANGED <<cache, stamp>>
    /\ UNCHANGED <<online, wsVars, msgVars, respVars, pageVars, assignVars, sortVars, recentVars, discussionVars, clickVars, sizeVars>>

\* sitesProvider.getCurrentSiteUserId()
getCurrentSiteUserId == "me"

\* deleteMessageOnline, line 70: userId = userId || getCurrentSiteUserId()
userIdOf(arg) == IF arg = "" THEN getCurrentSiteUserId ELSE arg

\* deleteMessageOnline(id, read, userId) for a message of the discussion with
\* user `with`; "" stands for an omitted userId.
deleteMessageOnline(with, userId) ==
    /\ Len(ops) < MaxOps
    /\ ops' = Append(ops, [Operation("deleteMessageOnline", with, "", FALSE, "write")
                              EXCEPT !.arg = userId])
    /\ UNCHANGED <<cache, stamp>>
    /\ UNCHANGED <<online, wsVars, msgVars, respVars, pageVars, assignVars, sortVars, recentVars, discussionVars, clickVars, sizeVars>>

\* getCurrentSite().write('core_message_delete_message', params) settles.
DeleteAnswered(i, ok) ==
    /\ i \in 1..Len(ops) /\ ops[i].kind = "deleteMessageOnline" /\ ops[i].pc = "write"
    /\ ok => online
    /\ ops' = IF ok THEN [ops EXCEPT ![i].pc = "key"]
              ELSE [ops EXCEPT ![i].pc = "rejected", ![i].err = "write"]
    /\ UNCHANGED <<cache, stamp>>
    /\ UNCHANGED <<online, wsVars, msgVars, respVars, pageVars, assignVars, sortVars, recentVars, discussionVars, clickVars, sizeVars>>

\* invalidateDiscussionCache(userId) of deleteMessageOnline settles, lines
\* 77-79; its rejection is that of deleteMessageOnline.
DeleteInvalidated(i, ok) ==
    /\ i \in 1..Len(ops) /\ ops[i].kind = "deleteMessageOnline" /\ ops[i].pc = "key"
    /\ IF ok
       THEN /\ cache' = invalidateWsCacheForKey(cache, getSite(""),
                              getCacheKeyForDiscussion(userIdOf(ops[i].arg)))
            /\ stamp' = stamp + 1
            /\ ops' = [ops EXCEPT ![i].pc = "done", ![i].markedAt = stamp + 1,
                                  ![i].doneAt = stamp + 1]
       ELSE /\ ops' = [ops EXCEPT ![i].pc = "rejected", ![i].err = "storage"]
            /\ UNCHANGED <<cache, stamp>>
    /\ UNCHANGED <<online, wsVars, msgVars, respVars, pageVars, assignVars, sortVars, recentVars, discussionVars, clickVars, sizeVars>>

\* Messages are deleted while discussions are read.
DeleteActions ==
    \/ \E u \in Users, userId \in {"", "u2"} : deleteMessageOnline(u, userId)
    \/ \E i \in 1..Len(ops), ok \in BOOLEAN : DeleteAnswered(i, ok)
    \/ \E i \in 1..Len(ops), ok \in BOOLEAN : DeleteInvalidated(i, ok)
    \/ \E u \in Users : getDiscussion(u, FALSE, "")
    \/ \E i \in 1..Len(ops), ok \in BOOLEAN : ReadAnswered(i, ok)

\* The arguments of the callers: "" stands for an omitted siteId.
SiteIds == {"", "s2"}

CacheActions ==
    \/ \E u \in Users, older \in BOOLEAN, s \in SiteIds : getDiscussion(u, older, s)
    \/ \E s \in SiteIds : getDiscussions(s)
    \/ \E s \in SiteIds : readContacts(s)
    \/ \E u \in Users, s \in SiteIds : invalidateDiscussionCache(u, s)
    \/ \E s \in SiteIds : invalidateDiscussionsCache(s)
    \/ \E s \in SiteIds : invalidateContactsCache(s)
    \/ \E i \in 1..Len(ops), ok \in BOOLEAN : InvalidationStep(i, ok)
    \/ \E i \in 1..Len(ops), ok \in BOOLEAN : ReadAnswered(i, ok)

\* No read or invalidation has been made and nothing is stored.
InitCache ==
    /\ cache = [id \in CacheIds |-> NoEntry]
    /\ ops = <<>>
    /\ stamp = 0

\* The cache is empty or holds the entries of an earlier session.
InitStoredCache ==
    /\ \E filled \in {{}, Sites} :
          cache = [id \in CacheIds |->
                      IF id[1] \in filled THEN [at |-> 0, valid |-> TRUE] ELSE NoEntry]
    /\ ops = <<>>
    /\ stamp = 0

\* messagesOffline.hasMessages(toUserId, siteId), when the read succeeds.
hasMessages(st, to, site) == \E e \in st : e.to = to /\ e.site = site

\* messagesOffline.saveMessage(toUserId, message, siteId): the stored entry.
saveMessage(id, to, site, now) ==
    [id |-> id, to |-> to, site |-> site, createdAt |-> now, orderingKey |-> nextOrder]

\* drain(entity): the pending messages of a recipient in creation order.
RECURSIVE drain(_)
drain(entries) ==
    IF entries = {} THEN <<>>
    ELSE LET first == CHOOSE e \in entries :
                        \A f \in entries : e.orderingKey <= f.orderingKey
         IN  <<first>> \o drain(entries \ {first})

PendingMessages(to, site) == {e \in store : e.to = to /\ e.site = site}

\* sendMessage, lines 544-553: the branch taken on entry.
sendMessageBranchNoOfflineCheck(isOnline) == "check"

sendMessageBranch(isOnline) == IF ~isOnline THEN "store" ELSE "check"

\* sendMessage, lines 556-562: the branch taken once hasMessages has answered.
afterCheckAlwaysSend(hasStoredMessages) == "send"

afterCheck(hasStoredMessages) == IF hasStoredMessages THEN "store" ELSE "send"

\* sendMessage, lines 564-572: the branch taken when sendMessageOnline rejects.
onSendErrorAlwaysStore(wserror) == "store"

onSendErrorAlwaysReject(wserror) == "reject"

onSendError(wserror) == IF wserror THEN "reject" ELSE "store"

\* sendMessageOnline, lines 597-609: whether the failure is a web-service
\* error (isWebServiceError of the rejection, or msgid === -1 in the response).
isWebServiceError(answer) == answer \in {"wserror", "msgid"}

\* storeOffline with the rejection of saveMessage swallowed.
storeOfflineResolvesUnsaved(ms, c, saved) ==
    /\ \E t \in {clock, clock + 1} :
         /\ t <= MaxTime
         /\ ~saved => t = clock
         /\ clock' = t
    /\ msgs' = [ms EXCEPT ![c].pc = "done",
                          ![c].result = "stored",
                          ![c].err = IF saved THEN "" ELSE "storage",
                          ![c].createdAt = IF saved THEN clock' ELSE NoTime,
                          ![c].pendingSince = FALSE]
    /\ store' = IF saved THEN store \cup {saveMessage(c, ms[c].to, ms[c].site, clock')}
                          ELSE store
    /\ nextOrder' = IF saved THEN nextOrder + 1 ELSE nextOrder

\* storeOffline of invocation c: saveMessage succeeds and sendMessage resolves
\* with {sent: false, message: entry} (of the entry the record keeps its
\* createdAt), or fails and sendMessage rejects.  The device clock is read by
\* the save; it stands where the last save left it or has advanced since.
storeOffline(ms, c, saved) ==
    /\ \E t \in {clock, clock + 1} :
         /\ t <= MaxTime
         /\ ~saved => t = clock
         /\ clock' = t
    /\ msgs' = [ms EXCEPT ![c].pc = "done",
                          ![c].result = IF saved THEN "stored" ELSE "rejected",
                          ![c].err = IF saved THEN "" ELSE "storage",
                          ![c].createdAt = IF saved THEN clock' ELSE NoTime,
                          ![c].pendingSince = FALSE]
    /\ store' = IF saved THEN store \cup {saveMessage(c, ms[c].to, ms[c].site, clock')}
                          ELSE store
    /\ nextOrder' = IF saved THEN nextOrder + 1 ELSE nextOrder

\* The earlier invocations for the same recipient and site not yet settled.
Unsettled(to, site) ==
    {i \in 1..Len(msgs) : msgs[i].to = to /\ msgs[i].site = site /\ msgs[i].pc /= "done"}

\* sendMessage(toUserId, message, siteId) up to its first suspension point.
sendMessage(to, siteArg, saved) ==
    /\ Len(msgs) < MaxMsgs
    /\ LET siteId == IF siteArg = "" THEN getCurrentSiteId ELSE siteArg
           c == Len(msgs) + 1
           m == [to |-> to, site |-> siteId, pc |-> "check",
                 result |-> "none", err |-> "", createdAt |-> NoTime,
                 answer |-> "none", read |-> "none", onlineAtCall |-> online,
                 overlapped |-> Unsettled(to, siteId),
                 pendingSince |-> hasMessages(store, to, siteId)]
       IN  IF sendMessageBranch(online) = "store"
           THEN storeOffline(Append(msgs, m), c, saved)
           ELSE /\ msgs' = Append(msgs, m)
                /\ saved
                /\ UNCHANGED <<store, nextOrder, clock>>
    /\ UNCHANGED <<online, wsVars, respVars, cacheVars, pageVars, assignVars, sortVars, recentVars, discussionVars, clickVars, sizeVars, sync, serverLog, syncFailed>>

\* hasMessages(...).catch(() => true), lines 553-556, with the error taken as
\* "no messages".
hasStoredMessagesOrNone(readOk, st, to, site) == readOk /\ hasMessages(st, to, site)

\* hasMessages(...).catch(() => true), lines 553-556.
hasStoredMessagesOrTrue(readOk, st, to, site) ==
    IF readOk THEN hasMessages(st, to, site) ELSE TRUE

\* hasMessages answers and its continuation runs, lines 553-562: a failed
\* read is taken as "has messages"; the message is stored, or handed to
\* sendMessageOnline(toUserId, message), which sends to the current site.
HasMessagesAnswered(c, readOk, saved) ==
    /\ c \in 1..Len(msgs) /\ msgs[c].pc = "check"
    /\ LET hasStoredMessages ==
               hasStoredMessagesOrTrue(readOk, store, msgs[c].to, msgs[c].site)
           ms == [msgs EXCEPT ![c].read = IF readOk THEN "ok" ELSE "failed"]
       IN  IF afterCheck(hasStoredMessages) = "store"
           THEN storeOffline(ms, c, saved)
           ELSE /\ saved
                /\ msgs' = [ms EXCEPT ![c].pc = "sending"]
                /\ UNCHANGED <<store, nextOrder, clock>>
    /\ UNCHANGED <<online, wsVars, respVars, cacheVars, pageVars, assignVars, sortVars, recentVars, discussionVars, clickVars, sizeVars, sync, serverLog, syncFailed>>

\* The request of sendMessageOnline is answered: accepted ("ok"), refused by
\* the web service ("wserror", or "msgid" for msgid === -1 in the response),
\* or lost ("neterror").  Only a connected device gets an answer.
SendAnswered(c, answer, saved) ==
    /\ c \in 1..Len(msgs) /\ msgs[c].pc = "sending"
    /\ answer /= "neterror" => online
    /\ LET ms == [msgs EXCEPT ![c].answer = answer] IN
       IF answer = "ok"
       THEN /\ saved
            /\ msgs' = [ms EXCEPT ![c].pc = "done", ![c].result = "sent"]
            /\ serverLog' = Append(serverLog, [id |-> c, site |-> getCurrentSiteId])
            /\ UNCHANGED <<store, nextOrder, clock>>
       ELSE IF onSendError(isWebServiceError(answer)) = "reject"
       THEN /\ saved
            /\ msgs' = [ms EXCEPT ![c].pc = "done", ![c].result = "rejected",
                                  ![c].err = answer]
            /\ UNCHANGED <<store, nextOrder, clock, serverLog>>
       ELSE /\ storeOffline(ms, c, saved)
            /\ UNCHANGED serverLog
    \* sendMessageOnline, lines 611-613: invalidateDiscussionCache(toUserId, siteId)
    /\ cache' = IF answer = "ok"
                THEN invalidateWsCacheForKey(cache, getCurrentSiteId,
                                             getCacheKeyForDiscussion(msgs[c].to))
                ELSE cache
    /\ UNCHANGED <<online, wsVars, respVars, pageVars, assignVars, sortVars, recentVars, discussionVars, clickVars, sizeVars, ops, stamp, sync, syncFailed>>

(***************************************************************************)
(* Sync of the stored messages of one recipient: IDLE -> SYNCING -> IDLE.  *)
(* A trigger while SYNCING is a no-op; the batch is replayed in creation   *)
(* order, one message after the other; an accepted message leaves the      *)
(* store, a failed one stays, and the batch goes on; syncFailed records    *)
(* that some replay has failed.                                            *)
(***************************************************************************)
Idle == [state |-> "IDLE", batch |-> <<>>]

SyncStart(to, site) ==
    /\ sync.state = "IDLE"
    /\ online
    /\ PendingMessages(to, site) /= {}
    /\ sync' = [state |-> "SYNCING", batch |-> drain(PendingMessages(to, site))]
    /\ UNCHANGED <<online, wsVars, respVars, cacheVars, pageVars, assignVars, sortVars, recentVars, discussionVars, clickVars, sizeVars, msgs, store, nextOrder, clock, serverLog, syncFailed>>

\* A recipient's queue emptied ends "pending since the call" for the
\* invocations still waiting for the answer of hasMessages.
Emptied(st, to, site) ==
    [c \in 1..Len(msgs) |->
        IF msgs[c].to = to /\ msgs[c].site = site /\ msgs[c].pc = "check"
           /\ ~hasMessages(st, to, site)
        THEN [msgs[c] EXCEPT !.pendingSince = FALSE]
        ELSE msgs[c]]

\* PARTIAL_FAILURE: what is left of the batch once its first message has been
\* replayed and answered.
remainingNoneAfterFailure(batch, accepted) == IF accepted THEN Tail(batch) ELSE <<>>

remaining(batch, accepted) == Tail(batch)

\* The next message of the batch is replayed and answered; after the last
\* one the sync is over.
SyncSend(accepted) ==
    /\ sync.state = "SYNCING"
    /\ accepted => online
    /\ LET e == Head(sync.batch) IN
        /\ sync' = IF remaining(sync.batch, accepted) = <<>> THEN Idle
                   ELSE [sync EXCEPT !.batch = remaining(sync.batch, accepted)]
        /\ IF accepted
           THEN /\ serverLog' = Append(serverLog, [id |-> e.id, site |-> e.site])
                /\ store' = store \ {e}
                /\ msgs' = Emptied(store \ {e}, e.to, e.site)
                /\ UNCHANGED syncFailed
           ELSE /\ syncFailed' = TRUE
                /\ UNCHANGED <<serverLog, store, msgs>>
    /\ UNCHANGED <<online, wsVars, respVars, cacheVars, pageVars, assignVars, sortVars, recentVars, discussionVars, clickVars, sizeVars, nextOrder, clock>>

InitMsg ==
    /\ msgs = <<>>
    /\ store = {}
    /\ nextOrder = 1
    /\ clock = 0
    /\ sync = Idle
    /\ serverLog = <<>>
    /\ syncFailed = FALSE

MsgActions ==
    \/ \E t \in Targets, saved \in BOOLEAN : sendMessage(t[1], t[2], saved)
    \/ \E c \in 1..Len(msgs), readOk \in BOOLEAN, saved \in BOOLEAN :
          HasMessagesAnswered(c, readOk, saved)
    \/ \E c \in 1..Len(msgs), a \in {"ok", "wserror", "msgid", "neterror"},
          saved \in BOOLEAN : SendAnswered(c, a, saved)
    \/ \E to \in Users, s \in Sites : SyncStart(to, s)
    \/ \E accepted \in BOOLEAN : SyncSend(accepted)

(***************************************************************************)
(* AddonMessagesGroupConversationsPage: the list of conversations, the     *)
(* events that refresh it and its loaded flag.  invalidateConversations,   *)
(* getConversations and searchMessages are operations of the messages      *)
(* provider that are answered later, with success or with an error.        *)
(***************************************************************************)
\* Number of events and user actions handled by the page.
MaxEvents == 2

\* fetchData, lines 616-626: .then(...).catch(...).finally(() => loaded = true)
loadedAfterFetchOnSuccess(l, ok) == IF ok THEN TRUE ELSE l

loadedAfterFetch(l, ok) == TRUE

\* An operation the page has started: refreshData, fetchData or searchMessage;
\* andLoaded tells that its caller sets loaded in a finally() of its own.
Task(kind, trigger, pc, andLoaded) ==
    [kind |-> kind, trigger |-> trigger, pc |-> pc, andLoaded |-> andLoaded,
     failed |-> FALSE]

Running(i) == tasks[i].pc /= "done"

\* refreshData(refresher): invalidateConversations().then(() => fetchData())
refreshData(trigger, andLoaded) ==
    tasks' = Append(tasks, Task("refresh", trigger, "invalidating", andLoaded))

\* fetchData(): the first conversations of each type are asked for.
fetchData(trigger, andLoaded) ==
    tasks' = Append(tasks, Task("fetch", trigger, "fetching", andLoaded))

Handled == events < MaxEvents /\ events' = events + 1

\* ngOnInit, once.
ngOnInit ==
    /\ \A i \in 1..Len(tasks) : tasks[i].trigger /= "ngOnInit"
    /\ fetchData("ngOnInit", FALSE)
    /\ UNCHANGED <<loaded, events>>
    /\ UNCHANGED <<online, wsVars, msgVars, respVars, cacheVars, assignVars, sortVars, recentVars, discussionVars, clickVars, sizeVars>>

\* NEW_MESSAGE_EVENT with a conversation id: a conversation that is in the
\* list is updated in place, an unknown one refreshes the list.
newMessagesObserver(found) ==
    /\ Handled
    /\ IF found
       THEN UNCHANGED <<loaded, tasks>>
       ELSE /\ loaded' = FALSE
            /\ refreshData("newMessage", TRUE)
    /\ UNCHANGED <<online, wsVars, msgVars, respVars, cacheVars, assignVars, sortVars, recentVars, discussionVars, clickVars, sizeVars>>

\* READ_CRON_EVENT
cronObserver ==
    /\ Handled
    /\ refreshData("cron", FALSE)
    /\ UNCHANGED loaded
    /\ UNCHANGED <<online, wsVars, msgVars, respVars, cacheVars, assignVars, sortVars, recentVars, discussionVars, clickVars, sizeVars>>

\* platform.resume
appResumeSubscription ==
    /\ Handled
    /\ IF ~loaded
       THEN UNCHANGED <<loaded, tasks>>
       ELSE /\ loaded' = FALSE
            /\ refreshData("resume", TRUE)
    /\ UNCHANGED <<online, wsVars, msgVars, respVars, cacheVars, assignVars, sortVars, recentVars, discussionVars, clickVars, sizeVars>>

\* A push notification is received: a message of the current site refreshes
\* the list.
pushObserver(forThisSite) ==
    /\ Handled
    /\ IF forThisSite
       THEN refreshData("push", FALSE)
       ELSE UNCHANGED tasks
    /\ UNCHANGED loaded
    /\ UNCHANGED <<online, wsVars, msgVars, respVars, cacheVars, assignVars, sortVars, recentVars, discussionVars, clickVars, sizeVars>>

\* The user pulls to refresh: refreshData(refresher).
userRefresh ==
    /\ Handled
    /\ refreshData("user", FALSE)
    /\ UNCHANGED loaded
    /\ UNCHANGED <<online, wsVars, msgVars, respVars, cacheVars, assignVars, sortVars, recentVars, discussionVars, clickVars, sizeVars>>

clearSearch ==
    /\ Handled
    /\ loaded' = FALSE
    /\ fetchData("clearSearch", TRUE)
    /\ UNCHANGED <<online, wsVars, msgVars, respVars, cacheVars, assignVars, sortVars, recentVars, discussionVars, clickVars, sizeVars>>

searchMessage ==
    /\ Handled
    /\ loaded' = FALSE
    /\ tasks' = Append(tasks, Task("search", "search", "searching", FALSE))
    /\ UNCHANGED <<online, wsVars, msgVars, respVars, cacheVars, assignVars, sortVars, recentVars, discussionVars, clickVars, sizeVars>>

\* invalidateConversations is answered: fetchData starts, or refreshData
\* rejects and the finally() of its caller runs.
InvalidateAnswered(i, ok) ==
    /\ i \in 1..Len(tasks) /\ tasks[i].pc = "invalidating"
    /\ IF ok
       THEN /\ tasks' = [tasks EXCEPT ![i].pc = "fetching"]
            /\ UNCHANGED loaded
       ELSE /\ tasks' = [tasks EXCEPT ![i].pc = "done", ![i].failed = TRUE]
            /\ loaded' = IF tasks[i].andLoaded THEN TRUE ELSE loaded
    /\ UNCHANGED events
    /\ UNCHANGED <<online, wsVars, msgVars, respVars, cacheVars, assignVars, sortVars, recentVars, discussionVars, clickVars, sizeVars>>

\* Promise.all of fetchData settles: its finally() runs, then that of the
\* caller.
FetchAnswered(i, ok) ==
    /\ i \in 1..Len(tasks) /\ tasks[i].pc = "fetching"
    /\ tasks' = [tasks EXCEPT ![i].pc = "done", ![i].failed = ~ok]
    /\ loaded' = IF tasks[i].andLoaded THEN TRUE ELSE loadedAfterFetch(loaded, ok)
    /\ UNCHANGED events
    /\ UNCHANGED <<online, wsVars, msgVars, respVars, cacheVars, assignVars, sortVars, recentVars, discussionVars, clickVars, sizeVars>>

\* searchMessages settles: the finally() of searchMessage runs.
SearchAnswered(i, ok) ==
    /\ i \in 1..Len(tasks) /\ tasks[i].pc = "searching"
    /\ tasks' = [tasks EXCEPT ![i].pc = "done", ![i].failed = ~ok]
    /\ loaded' = TRUE
    /\ UNCHANGED events
    /\ UNCHANGED <<online, wsVars, msgVars, respVars, cacheVars, assignVars, sortVars, recentVars, discussionVars, clickVars, sizeVars>>

PageAnswers ==
    \/ \E i \in 1..Len(tasks), ok \in BOOLEAN : InvalidateAnswered(i, ok)
    \/ \E i \in 1..Len(tasks), ok \in BOOLEAN : FetchAnswered(i, ok)
    \/ \E i \in 1..Len(tasks), ok \in BOOLEAN : SearchAnswered(i, ok)

PageActions ==
    \/ ngOnInit
    \/ \E found \in BOOLEAN : newMessagesObserver(found)
    \/ cronObserver
    \/ appResumeSubscription
    \/ \E forThisSite \in BOOLEAN : pushObserver(forThisSite)
    \/ userRefresh
    \/ clearSearch
    \/ searchMessage
    \/ PageAnswers

\* The page as constructed.
InitPage ==
    /\ loaded = FALSE
    /\ tasks = <<>>
    /\ events = 0

(***************************************************************************)
(* AddonModAssignHelperProvider.getSubmissionsUserData: the submissions of *)
(* an assignment are matched with the list of its participants.  An        *)
(* optional number is the empty set when undefined and {n} otherwise.      *)
(***************************************************************************)
\* Number of submissions passed to one call.
MaxSubs == 2

Undefined == {}

Defined(x) == x /= Undefined

Val(x) == CHOOSE v \in x : TRUE

Positive(x) == Defined(x) /\ Val(x) > 0

\* JavaScript truthiness of an optional number.
Truthy(x) == Defined(x) /\ Val(x) /= 0

\* submission.userid and submission.blindid as the server reports them.
UserIds == {Undefined, {0}, {1}, {3}}

BlindIds == {Undefined, {-1}, {2}, {3}}

\* The ids getParticipants can return.
ParticipantIds == {1, 2}

\* The ids getAssignmentUserMappings can return.
MappedIds == {{0}, {4}}

SubmissionLists ==
    UNION {[1..n -> [userid : UserIds, blindid : BlindIds]] : n \in 0..MaxSubs}

\* participant.fullname
fullnameOf(named) == IF named THEN "name" ELSE ""

\* Line 412.
submitidOf(submission) ==
    IF Positive(submission.userid) THEN submission.userid ELSE submission.blindid

\* Lines 413-421 without the look-up in the list.
skippedUnlessPositive(submitid, parts) == ~Defined(submitid) \/ Val(submitid) <= 0

\* Lines 413-421: the submission is left out.
skipped(submitid, parts) ==
    \/ ~Defined(submitid)
    \/ Val(submitid) <= 0
    \/ Val(submitid) \notin parts

\* Lines 423-447 with the identity kept whatever the marking.
formattedWithIdentity(submission, i, blind, named) ==
    [origin |-> i,
     submitid |-> Val(submitidOf(submission)),
     userid |-> submission.userid,
     blindid |-> submission.blindid,
     userfullname |-> fullnameOf(named),
     mapping |-> Positive(submission.userid) /\ blind]

\* Lines 423-447: the submission with the data of its participant; origin is
\* its index in the list passed and mapping tells that its blind id is asked
\* for.
formatted(submission, i, blind, named) ==
    [origin |-> i,
     submitid |-> Val(submitidOf(submission)),
     userid |-> IF Positive(submission.userid) /\ blind THEN Undefined
                ELSE submission.userid,
     blindid |-> submission.blindid,
     userfullname |-> IF blind THEN "" ELSE fullnameOf(named),
     mapping |-> Positive(submission.userid) /\ blind]

\* submissions.forEach, lines 411-458: the submissions treated, in order, and
\* the participants left.
RECURSIVE forEachSubmission(_, _, _, _, _)
forEachSubmission(submissions, i, parts, blind, named) ==
    IF i > Len(submissions) THEN [participants |-> parts, treated |-> <<>>]
    ELSE LET submitid == submitidOf(submissions[i]) IN
         IF skipped(submitid, parts)
         THEN forEachSubmission(submissions, i + 1, parts, blind, named)
         ELSE LET rest == forEachSubmission(submissions, i + 1,
                                            parts \ {Val(submitid)}, blind, named)
              IN  [rest EXCEPT !.treated =
                      <<formatted(submissions[i], i, blind, named)>> \o @]

\* Lines 450-455: whether the submission is added to the list.
added(submission) == submission.userfullname /= "" \/ Truthy(submission.blindid)

\* Lines 463-486: a submission for each participant left, in the order of
\* their ids.
RECURSIVE emptySubmissions(_, _, _)
emptySubmissions(parts, blind, named) ==
    IF parts = {} THEN <<>>
    ELSE LET id == CHOOSE p \in parts : \A q \in parts : p <= q IN
         <<[origin |-> 0,
            submitid |-> id,
            userid |-> IF blind THEN {0} ELSE {id},
            blindid |-> IF blind THEN {id} ELSE Undefined,
            userfullname |-> IF blind THEN "" ELSE fullnameOf(named),
            mapping |-> FALSE]>>
         \o emptySubmissions(parts \ {id}, blind, named)

NoRequest == [submissions |-> <<>>, parts |-> {}, blind |-> FALSE, named |-> FALSE]

\* getSubmissionsUserData(assign, submissions, groupId, options) up to the
\* await of getParticipants; parts and named are the list that getParticipants
\* will return and whether its participants carry a full name.
getSubmissionsUserData(submissions, blind, parts, named) ==
    /\ apc = "idle"
    /\ request' = [submissions |-> submissions, parts |-> parts,
                   blind |-> blind, named |-> named]
    /\ apc' = "participants"
    /\ UNCHANGED <<participants, pending, result>>
    /\ UNCHANGED <<online, wsVars, msgVars, respVars, cacheVars, pageVars, sortVars, recentVars, discussionVars, clickVars, sizeVars>>

\* getParticipants settles, lines 404-460: every submission is treated, those
\* that need no mapping are added at once; with no mapping to wait for the
\* call resolves.
getParticipantsAnswered(ok) ==
    /\ apc = "participants"
    /\ IF ~ok
       THEN /\ apc' = "rejected"
            /\ UNCHANGED <<participants, pending, result>>
       ELSE LET done == forEachSubmission(request.submissions, 1, request.parts,
                                          request.blind, request.named)
                waiting == {done.treated[k] : k \in
                               {j \in 1..Len(done.treated) : done.treated[j].mapping}}
                ready == SelectSeq(done.treated, LAMBDA s : ~s.mapping /\ added(s))
            IN  /\ participants' = done.participants
                /\ pending' = waiting
                /\ IF waiting = {}
                   THEN /\ apc' = "resolved"
                        /\ result' = ready \o emptySubmissions(done.participants,
                                                  request.blind, request.named)
                   ELSE /\ apc' = "mappings"
                        /\ result' = ready
    /\ UNCHANGED request
    /\ UNCHANGED <<online, wsVars, msgVars, respVars, cacheVars, pageVars, sortVars, recentVars, discussionVars, clickVars, sizeVars>>

\* getAssignmentUserMappings of one submission settles, lines 443-460: its
\* blind id is set and it is added; after the last one the call resolves.  A
\* failure rejects the call.
getAssignmentUserMappingsAnswered(submission, ok, blindId) ==
    /\ apc = "mappings"
    /\ submission \in pending
    /\ pending' = pending \ {submission}
    /\ IF ~ok
       THEN /\ apc' = "rejected"
            /\ UNCHANGED result
       ELSE LET mapped == [submission EXCEPT !.blindid = blindId]
                list == IF added(mapped) THEN Append(result, mapped) ELSE result
            IN  IF pending' = {}
                THEN /\ apc' = "resolved"
                     /\ result' = list \o emptySubmissions(participants,
                                              request.blind, request.named)
                ELSE /\ apc' = "mappings"
                     /\ result' = list
    /\ UNCHANGED <<request, participants>>
    /\ UNCHANGED <<online, wsVars, msgVars, respVars, cacheVars, pageVars, sortVars, recentVars, discussionVars, clickVars, sizeVars>>

AssignActions ==
    \/ \E submissions \in SubmissionLists, blind \in BOOLEAN,
          parts \in SUBSET ParticipantIds, named \in BOOLEAN :
            getSubmissionsUserData(submissions, blind, parts, named)
    \/ \E ok \in BOOLEAN : getParticipantsAnswered(ok)
    \/ \E submission \in pending, ok \in BOOLEAN, blindId \in MappedIds :
            getAssignmentUserMappingsAnswered(submission, ok, blindId)

\* No call has been made.
InitAssign ==
    /\ request = NoRequest
    /\ apc = "idle"
    /\ participants = {}
    /\ pending = {}
    /\ result = <<>>

(***************************************************************************)
(* AddonMessagesProvider.sortMessages: messages.sort(comparator).  A       *)
(* message has a pending flag, a timecreated and an optional id.           *)
(***************************************************************************)
\* Length of the array passed to sortMessages.
MaxList == 3

\* timecreated as text, and parseInt(text, 10) of it.
Times == {"1", "2", "10"}

parseInt(text) == IF text = "1" THEN 1 ELSE IF text = "2" THEN 2 ELSE 10

MessageIds == {Undefined, {1}, {2}}

SortableMessages == [pending : BOOLEAN, timecreated : Times, id : MessageIds]

MessageLists == UNION {[1..n -> SortableMessages] : n \in 0..MaxList}

\* a.id >= b.id: false when either is undefined.
GreaterOrEqual(x, y) == Defined(x) /\ Defined(y) /\ Val(x) >= Val(y)

\* The comparator with the times compared as they are written.
compareAsText(a, b) ==
    IF a.pending /\ ~b.pending THEN 1
    ELSE IF ~a.pending /\ b.pending THEN -1
    ELSE IF a.timecreated = b.timecreated /\ Truthy(a.id)
    THEN IF GreaterOrEqual(a.id, b.id) THEN 1 ELSE -1
    ELSE IF Len(a.timecreated) > Len(b.timecreated)
            \/ a.timecreated = b.timecreated
            \/ (a.timecreated = "1" /\ b.timecreated = "10")
         THEN 1 ELSE -1

\* The comparator of sortMessages, lines 645-659.
compare(a, b) ==
    IF a.pending /\ ~b.pending THEN 1
    ELSE IF ~a.pending /\ b.pending THEN -1
    ELSE LET timecreatedA == parseInt(a.timecreated)
             timecreatedB == parseInt(b.timecreated)
         IN  IF timecreatedA = timecreatedB /\ Truthy(a.id)
             THEN IF GreaterOrEqual(a.id, b.id) THEN 1 ELSE -1
             ELSE IF timecreatedA >= timecreatedB THEN 1 ELSE -1

\* Array.prototype.sort for a short array.  The comparator never returns 0,
\* so the order of messages it cannot tell apart is that of the engine: an
\* insertion sort that moves an element left past every element greater than
\* it, or one that finds its place by bisection.
RECURSIVE placeFromRight(_, _, _)
placeFromRight(prefix, element, j) ==
    IF j = 0 \/ compare(prefix[j], element) <= 0 THEN j
    ELSE placeFromRight(prefix, element, j - 1)

RECURSIVE placeByBisection(_, _, _, _)
placeByBisection(prefix, pivot, left, right) ==
    IF left >= right THEN left
    ELSE LET mid == left + ((right - left) \div 2) IN
         IF compare(pivot, prefix[mid + 1]) < 0
         THEN placeByBisection(prefix, pivot, left, mid)
         ELSE placeByBisection(prefix, pivot, mid + 1, right)

InsertAt(prefix, element, j) ==
    SubSeq(prefix, 1, j) \o <<element>> \o SubSeq(prefix, j + 1, Len(prefix))

RECURSIVE sort(_, _, _)
sort(array, i, bisect) ==
    IF i > Len(array) THEN array
    ELSE LET prefix == SubSeq(array, 1, i - 1)
             j == IF bisect THEN placeByBisection(prefix, array[i], 0, i - 1)
                  ELSE placeFromRight(prefix, array[i], i - 1)
         IN  sort(InsertAt(prefix, array[i], j) \o SubSeq(array, i + 1, Len(array)),
                  i + 1, bisect)

NotSorted == <<[pending |-> FALSE, timecreated |-> "", id |-> Undefined]>>

\* sortMessages(messages)
sortMessages(messages, bisect) ==
    /\ sorted = NotSorted
    /\ unsorted' = messages
    /\ sorted' = sort(messages, 2, bisect)
    /\ UNCHANGED <<online, wsVars, msgVars, respVars, cacheVars, pageVars, assignVars, recentVars, discussionVars, clickVars, sizeVars>>

SortActions ==
    \E messages \in MessageLists, bisect \in BOOLEAN : sortMessages(messages, bisect)

\* sortMessages has not been called.
InitSort ==
    /\ unsorted = <<>>
    /\ sorted = NotSorted

(***************************************************************************)
(* AddonMessagesProvider.getDiscussions: the last message of each          *)
(* discussion.  The messages received, then the messages sent, then the    *)
(* messages of the offline store are passed to treatRecentMessage.         *)
(***************************************************************************)
\* Number of messages received that one call fetches.
MaxRecent == 2

\* A message of the server has an id and no pending field; a message of the
\* offline store has no id and is marked pending (line 262).
ServerMessages ==
    [user : Users, id : {{1}, {2}, {3}}, timecreated : 1..2, pending : {Undefined}]

OfflineMessages ==
    [user : Users, id : {Undefined}, timecreated : 1..2, pending : {{TRUE}}]

ListsOf(S, n) == UNION {[1..k -> S] : k \in 0..n}

\* !!message.pending of a field that is true or undefined.
TruthyFlag(x) == Defined(x) /\ Val(x)

\* discMessage.pending == message.pending, of a boolean and a field that is
\* true or undefined: false == undefined is false.
looseEquals(discPending, msgPending) ==
    Defined(msgPending) /\ Val(msgPending) = discPending

\* discMessage.id < message.id: false when either is undefined.
Less(x, y) == Defined(x) /\ Defined(y) /\ Val(x) < Val(y)

NoMessage == [id |-> Undefined, user |-> "", timecreated |-> 0, pending |-> FALSE]

\* Lines 226-229: whether the message replaces the one kept for the
\* discussion; pending is true, or undefined for a message of the server.
replaces(discMessage, message) ==
    \/ discMessage = NoMessage
    \/ ~discMessage.pending /\ TruthyFlag(message.pending)
    \/ /\ looseEquals(discMessage.pending, message.pending)
       /\ \/ discMessage.timecreated < message.timecreated
          \/ /\ discMessage.timecreated = message.timecreated
             /\ Less(discMessage.id, message.id)

\* treatRecentMessage(message, userId, userFullname), lines 214-240.
treatRecentMessage(discs, message, userId) ==
    IF replaces(discs[userId], message)
    THEN [discs EXCEPT ![userId] = [id |-> message.id, user |-> userId,
                                    timecreated |-> message.timecreated,
                                    pending |-> TruthyFlag(message.pending)]]
    ELSE discs

\* messages.forEach((message) => treatRecentMessage(...))
RECURSIVE forEachMessage(_, _, _)
forEachMessage(discs, messages, i) ==
    IF i > Len(messages) THEN discs
    ELSE forEachMessage(treatRecentMessage(discs, messages[i], messages[i].user),
                        messages, i + 1)

\* The ids of the server are those of different messages.
DistinctIds(received, sent) ==
    LET all == received \o sent IN
    \A i, j \in 1..Len(all) : i /= j => all[i].id /= all[j].id

\* getDiscussions(siteId) up to its first request, for a server and an
\* offline store that hold these messages.
getDiscussionsMessages(received, sent, offline) ==
    /\ dpc = "idle"
    /\ DistinctIds(received, sent)
    /\ fetched' = [received |-> received, sent |-> sent, offline |-> offline]
    /\ dpc' = "received"
    /\ UNCHANGED discussions
    /\ UNCHANGED <<online, wsVars, msgVars, respVars, cacheVars, pageVars, assignVars, sortVars, discussionVars, clickVars, sizeVars>>

\* getRecentMessages settles, lines 243-259: the messages are treated and the
\* next list is asked for; a failure rejects the call.
RecentMessagesAnswered(ok) ==
    /\ dpc \in {"received", "sent"}
    /\ IF ok
       THEN /\ discussions' = forEachMessage(discussions, fetched[dpc], 1)
            /\ dpc' = IF dpc = "received" THEN "sent" ELSE "offline"
       ELSE /\ dpc' = "rejected"
            /\ UNCHANGED discussions
    /\ UNCHANGED fetched
    /\ UNCHANGED <<online, wsVars, msgVars, respVars, cacheVars, pageVars, assignVars, sortVars, discussionVars, clickVars, sizeVars>>

\* messagesOffline.getAllMessages settles, lines 260-271: the stored messages
\* are treated as pending; getDiscussionsUserImg always resolves.
AllMessagesAnswered(ok) ==
    /\ dpc = "offline"
    /\ IF ok
       THEN /\ discussions' = forEachMessage(discussions, fetched.offline, 1)
            /\ dpc' = "resolved"
       ELSE /\ dpc' = "rejected"
            /\ UNCHANGED discussions
    /\ UNCHANGED fetched
    /\ UNCHANGED <<online, wsVars, msgVars, respVars, cacheVars, pageVars, assignVars, sortVars, discussionVars, clickVars, sizeVars>>

RecentActions ==
    \/ \E received \in ListsOf(ServerMessages, MaxRecent),
          sent \in ListsOf(ServerMessages, 1), offline \in ListsOf(OfflineMessages, 1) :
            getDiscussionsMessages(received, sent, offline)
    \/ \E ok \in BOOLEAN : RecentMessagesAnswered(ok)
    \/ \E ok \in BOOLEAN : AllMessagesAnswered(ok)

\* getDiscussions has not been called.
InitRecent ==
    /\ fetched = [received |-> <<>>, sent |-> <<>>, offline |-> <<>>]
    /\ dpc = "idle"
    /\ discussions = [u \in Users |-> NoMessage]

(***************************************************************************)
(* AddonMessagesProvider.getDiscussion: the first page of a discussion     *)
(* (every lf... offset 0).  The messages are counted: getMessages returns  *)
(* the newest limitnum messages of the kind asked for.                     *)
(***************************************************************************)
\* this.LIMIT_MESSAGES, scaled down.
LIMIT_MESSAGES == 2

Kinds == {"receivedUnread", "receivedRead", "sentUnread", "sentRead"}

Min(a, b) == IF a <= b THEN a ELSE b

\* core_message_get_messages with limitfrom 0: the number of messages in
\* response.messages.
getMessages(kind, limit) == Min(limit, held[kind])

\* getRecentMessages, line 370: params.limitnum = params.limitnum - messages.length,
\* on the params object that getDiscussion passes to both of its calls.
limitAfterUnread(limit, n) == limit - n

directionOf(kind) == IF kind \in {"receivedUnread", "receivedRead"} THEN "received" ELSE "sent"

\* Lines 158-169: the number of messages returned and canLoadMore.
pageOf(received, sent) ==
    IF received + sent > LIMIT_MESSAGES
    THEN [messages |-> LIMIT_MESSAGES, canLoadMore |-> TRUE, resolved |-> TRUE]
    ELSE [messages |-> received + sent,
          canLoadMore |-> /\ received + sent = LIMIT_MESSAGES
                          /\ (~(received > 0) \/ ~(sent > 0)),
          resolved |-> TRUE]

NoPage == [messages |-> 0, canLoadMore |-> FALSE, resolved |-> FALSE]

\* getDiscussion(userId, excludePending) up to its first request, for a
\* server that holds these numbers of messages of the discussion.
getDiscussionPage(numbers) ==
    /\ gpc = "idle"
    /\ held' = numbers
    /\ gpc' = "receivedUnread"
    /\ limitnum' = LIMIT_MESSAGES
    /\ UNCHANGED <<got, page>>
    /\ UNCHANGED <<online, wsVars, msgVars, respVars, cacheVars, pageVars, assignVars, sortVars, recentVars, clickVars, sizeVars>>

\* The position after the requests of one direction: the messages sent are
\* asked for, or the result is built.
afterDirection(kind) == IF directionOf(kind) = "received" THEN "sentUnread" ELSE "resolved"

\* getMessages for the unread messages settles, lines 361-372: enough
\* messages end getRecentMessages, fewer make it ask for read ones; a failure
\* rejects getDiscussion.
UnreadAnswered(ok) ==
    /\ gpc \in {"receivedUnread", "sentUnread"}
    /\ IF ~ok
       THEN /\ gpc' = "rejected"
            /\ UNCHANGED <<limitnum, got, page>>
       ELSE LET n == getMessages(gpc, limitnum)
                g == [got EXCEPT ![directionOf(gpc)] = n]
            IN  /\ got' = g
                /\ IF n >= limitnum
                   THEN /\ gpc' = afterDirection(gpc)
                        /\ UNCHANGED limitnum
                        /\ page' = IF gpc' = "resolved" THEN pageOf(g.received, g.sent)
                                   ELSE page
                   ELSE /\ gpc' = IF gpc = "receivedUnread" THEN "receivedRead"
                                  ELSE "sentRead"
                        /\ limitnum' = limitAfterUnread(limitnum, n)
                        /\ UNCHANGED page
    /\ UNCHANGED held
    /\ UNCHANGED <<online, wsVars, msgVars, respVars, cacheVars, pageVars, assignVars, sortVars, recentVars, clickVars, sizeVars>>

\* getMessages for the read messages settles, lines 374-382: they are added;
\* a failure is caught and the unread ones are returned alone.
ReadMessagesAnswered(ok) ==
    /\ gpc \in {"receivedRead", "sentRead"}
    /\ LET n == IF ok THEN getMessages(gpc, limitnum) ELSE 0
           g == [got EXCEPT ![directionOf(gpc)] = @ + n]
       IN  /\ got' = g
           /\ gpc' = afterDirection(gpc)
           /\ page' = IF gpc' = "resolved" THEN pageOf(g.received, g.sent) ELSE page
    /\ UNCHANGED <<held, limitnum>>
    /\ UNCHANGED <<online, wsVars, msgVars, respVars, cacheVars, pageVars, assignVars, sortVars, recentVars, clickVars, sizeVars>>

DiscussionActions ==
    \/ \E numbers \in [Kinds -> 0..(LIMIT_MESSAGES + 1)] : getDiscussionPage(numbers)
    \/ \E ok \in BOOLEAN : UnreadAnswered(ok)
    \/ \E ok \in BOOLEAN : ReadMessagesAnswered(ok)

\* getDiscussion has not been called.
InitDiscussion ==
    /\ held = [k \in Kinds |-> 0]
    /\ gpc = "idle"
    /\ limitnum = LIMIT_MESSAGES
    /\ got = [received |-> 0, sent |-> 0]
    /\ page = NoPage

(***************************************************************************)
(* AddonMessagesPushClickHandlerService.handleClick, push-click.ts.        *)
(***************************************************************************)
MaxClicks == 2

\* Fields of the push payload are strings, when given.
ConvIds == {Undefined, {""}, {"5"}}

UserFromIds == {Undefined, {"9"}}

Notifications == [site : Sites, convid : ConvIds, userfromid : UserFromIds]

PageNames == {"messages/index", "messages/group-conversations"}

\* Truthiness of an optional string.
TruthyText(x) == Defined(x) /\ Val(x) /= ""

\* Number(text) of the texts above.
NumberOfText(text) == IF text = "" THEN 0 ELSE IF text = "5" THEN 5 ELSE 9

\* Lines 68-75: the parameters of the page.
pageParams(notification, enabled) ==
    IF TruthyText(notification.convid) /\ enabled
    THEN [conversationId |-> {NumberOfText(Val(notification.convid))},
          discussionUserId |-> Undefined]
    ELSE IF TruthyText(notification.userfromid)
    THEN [conversationId |-> Undefined,
          discussionUserId |-> {NumberOfText(Val(notification.userfromid))}]
    ELSE [conversationId |-> Undefined, discussionUserId |-> Undefined]

\* An await outside the try block: a rejection rejects handleClick.
afterInvalidateUncaught(ok) ==
    IF ok THEN [pc |-> "enabled", failedAt |-> ""]
    ELSE [pc |-> "rejected", failedAt |-> "invalidate"]

\* Lines 56-60: try { await invalidateDiscussionsCache } catch { }.
afterInvalidate(ok) == [pc |-> "enabled", failedAt |-> ""]

NoClick ==
    [notification |-> [site |-> "s1", convid |-> Undefined, userfromid |-> Undefined],
     pc |-> "idle", invalidated |-> "no", enabled |-> FALSE, failedAt |-> "",
     count |-> 0]

\* handleClick(notification): invalidateDiscussionsCache(notification.site) is
\* called and awaited.
handleClick(notification) ==
    /\ click.pc \in {"idle", "done", "rejected"}
    /\ click.count < MaxClicks
    /\ click' = [NoClick EXCEPT !.notification = notification, !.pc = "invalidate",
                                !.count = click.count + 1]
    /\ invalidations' = Append(invalidations, notification.site)
    /\ UNCHANGED navigations
    /\ UNCHANGED <<online, wsVars, msgVars, respVars, cacheVars, pageVars, assignVars, sortVars, recentVars, discussionVars, sizeVars>>

\* invalidateDiscussionsCache settles; isGroupMessagingEnabledInSite is called.
InvalidateDiscussionsAnswered(ok) ==
    /\ click.pc = "invalidate"
    /\ click' = [click EXCEPT !.invalidated = IF ok THEN "ok" ELSE "failed",
                              !.pc = afterInvalidate(ok).pc,
                              !.failedAt = afterInvalidate(ok).failedAt]
    /\ UNCHANGED <<invalidations, navigations>>
    /\ UNCHANGED <<online, wsVars, msgVars, respVars, cacheVars, pageVars, assignVars, sortVars, recentVars, discussionVars, sizeVars>>

\* isGroupMessagingEnabledInSite settles; getMainMessagesPagePathInSite is
\* called.
GroupMessagingAnswered(ok, enabled) ==
    /\ click.pc = "enabled"
    /\ click' = IF ok THEN [click EXCEPT !.enabled = enabled, !.pc = "path"]
                ELSE [click EXCEPT !.pc = "rejected", !.failedAt = "enabled"]
    /\ UNCHANGED <<invalidations, navigations>>
    /\ UNCHANGED <<online, wsVars, msgVars, respVars, cacheVars, pageVars, assignVars, sortVars, recentVars, discussionVars, sizeVars>>

\* getMainMessagesPagePathInSite settles; navigateToSitePath is called.
PagePathAnswered(ok, pageName) ==
    /\ click.pc = "path"
    /\ IF ok
       THEN /\ click' = [click EXCEPT !.pc = "navigate"]
            /\ navigations' = Append(navigations,
                   [path |-> pageName,
                    params |-> pageParams(click.notification, click.enabled),
                    siteId |-> click.notification.site,
                    click |-> click.count])
       ELSE /\ click' = [click EXCEPT !.pc = "rejected", !.failedAt = "path"]
            /\ UNCHANGED navigations
    /\ UNCHANGED invalidations
    /\ UNCHANGED <<online, wsVars, msgVars, respVars, cacheVars, pageVars, assignVars, sortVars, recentVars, discussionVars, sizeVars>>

\* navigateToSitePath settles and handleClick with it.
NavigateAnswered(ok) ==
    /\ click.pc = "navigate"
    /\ click' = IF ok THEN [click EXCEPT !.pc = "done"]
                ELSE [click EXCEPT !.pc = "rejected", !.failedAt = "navigate"]
    /\ UNCHANGED <<invalidations, navigations>>
    /\ UNCHANGED <<online, wsVars, msgVars, respVars, cacheVars, pageVars, assignVars, sortVars, recentVars, discussionVars, sizeVars>>

ClickActions ==
    \/ \E notification \in Notifications : handleClick(notification)
    \/ \E ok \in BOOLEAN : InvalidateDiscussionsAnswered(ok)
    \/ \E ok, enabled \in BOOLEAN : GroupMessagingAnswered(ok, enabled)
    \/ \E ok \in BOOLEAN, pageName \in PageNames : PagePathAnswered(ok, pageName)
    \/ \E ok \in BOOLEAN : NavigateAnswered(ok)

InitClick ==
    /\ click = NoClick
    /\ invalidations = <<>>
    /\ navigations = <<>>

(***************************************************************************)
(* CorePluginFileDelegateService.getFileSize, plugin-file-delegate.ts.     *)
(***************************************************************************)
\* The declared filesize of a file: optional.
FileSizes == {Undefined, {0}, {7}}

\* The optional methods a handler implements; NoHandler when no enabled handler
\* handles the file.
Handlers ==
    [isFileDownloadable : BOOLEAN, getDownloadableFile : BOOLEAN, getFileSize : BOOLEAN]

NoHandler == [isFileDownloadable |-> FALSE, getDownloadableFile |-> FALSE,
              getFileSize |-> FALSE]

\* What handler.getFileSize does when called: it returns a promise that is
\* resolved or rejected later, or it throws.
SizeOutcomes == {"resolves", "rejects", "throws"}

\* downloadableFile.filesize || 0
declaredSize(file) == IF Truthy(file.filesize) THEN Val(file.filesize) ELSE 0

NoSizeCall ==
    [file |-> [filesize |-> Undefined], handler |-> NoHandler, pc |-> "idle",
     downloadableFile |-> [filesize |-> Undefined], sizeFailed |-> "no",
     value |-> 0]

\* Lines 204-211 once downloadableFile is known: the call of handler.getFileSize
\* is inside try / catch but its promise is returned without being awaited, so
\* only an exception thrown by the call itself reaches the catch block.
sizeOf(lookup, downloadableFile, outcome) ==
    IF lookup.handler.getFileSize
    THEN IF outcome = "throws"
         THEN [lookup EXCEPT !.downloadableFile = downloadableFile,
                             !.sizeFailed = "thrown",
                             !.pc = "resolved",
                             !.value = declaredSize(downloadableFile)]
         ELSE [lookup EXCEPT !.downloadableFile = downloadableFile, !.pc = "size"]
    ELSE [lookup EXCEPT !.downloadableFile = downloadableFile,
                        !.pc = "resolved",
                        !.value = declaredSize(downloadableFile)]

\* getFileSize(file, siteId): isFileDownloadable(file, siteId) is awaited.
getFileSize(file, handler) ==
    /\ sizeCall.pc = "idle"
    /\ sizeCall' = [NoSizeCall EXCEPT !.file = file, !.handler = handler,
                                      !.pc = "isDownloadable"]
    /\ UNCHANGED <<online, wsVars, msgVars, respVars, cacheVars, pageVars, assignVars, sortVars, recentVars, discussionVars, clickVars>>

\* isFileDownloadable settles: the answer of the handler, or downloadable by
\* default; getHandlerDownloadableFile is awaited next.
IsDownloadableAnswered(ok, downloadable) ==
    /\ sizeCall.pc = "isDownloadable"
    /\ sizeCall.handler.isFileDownloadable \/ (ok /\ downloadable)
    /\ sizeCall' =
         IF ~ok THEN [sizeCall EXCEPT !.pc = "rejected"]
         ELSE IF ~downloadable THEN [sizeCall EXCEPT !.pc = "resolved", !.value = 0]
         ELSE [sizeCall EXCEPT !.pc = "downloadableFile"]
    /\ UNCHANGED <<online, wsVars, msgVars, respVars, cacheVars, pageVars, assignVars, sortVars, recentVars, discussionVars, clickVars>>

\* getHandlerDownloadableFile settles: it asks isFileDownloadable again and
\* then the handler for the file to download (newFile || file). Resolved, the
\* size is taken from the handler or from the file.
DownloadableFileAnswered(ok, newFile, outcome) ==
    /\ sizeCall.pc = "downloadableFile"
    /\ \/ sizeCall.handler.isFileDownloadable
       \/ sizeCall.handler.getDownloadableFile
       \/ ok
    /\ sizeCall.handler.getDownloadableFile \/ ~Defined(newFile)
    /\ sizeCall' =
         IF ~ok THEN [sizeCall EXCEPT !.pc = "rejected"]
         ELSE sizeOf(sizeCall,
                     IF Defined(newFile) THEN Val(newFile) ELSE sizeCall.file,
                     outcome)
    /\ UNCHANGED <<online, wsVars, msgVars, respVars, cacheVars, pageVars, assignVars, sortVars, recentVars, discussionVars, clickVars>>

\* The promise handler.getFileSize returned settles, and the promise of
\* getFileSize with it.
HandlerSizeAnswered(ok, size) ==
    /\ sizeCall.pc = "size"
    /\ sizeCall' =
         IF ok THEN [sizeCall EXCEPT !.pc = "resolved", !.value = size]
         ELSE [sizeCall EXCEPT !.pc = "rejected", !.sizeFailed = "rejected"]
    /\ UNCHANGED <<online, wsVars, msgVars, respVars, cacheVars, pageVars, assignVars, sortVars, recentVars, discussionVars, clickVars>>

SizeActions ==
    \/ \E filesize \in FileSizes, handler \in Handlers :
          getFileSize([filesize |-> filesize], handler)
    \/ \E ok, downloadable \in BOOLEAN : IsDownloadableAnswered(ok, downloadable)
    \/ \E ok \in BOOLEAN, outcome \in SizeOutcomes,
          newFile \in {Undefined} \cup {{[filesize |-> s]} : s \in FileSizes} :
          DownloadableFileAnswered(ok, newFile, outcome)
    \/ \E ok \in BOOLEAN, size \in {0, 3} : HandlerSizeAnswered(ok, size)

InitSize == sizeCall = NoSizeCall

(***************************************************************************)
(* Specifications.                                                         *)
(***************************************************************************)
WSActions ==
    \/ \E k \in Keys : call(k)
    \/ \E k \in Keys : callAjax(k)
    \/ \E k \in Keys : performHead(k)
    \/ \E k \in Keys, ok \in BOOLEAN : syncCall(k, ok)
    \/ \E r \in requests : PostOk(r)
    \/ \E r \in requests, h \in RetryAfterHeaders : PostOverload(r, h)
    \/ \E r \in requests : PostFail(r)
    \/ \E r \in requests, ok \in BOOLEAN : HttpSettled(r, ok)
    \/ \E t \in dedupTimers : DedupTimeout(t)
    \/ CooldownExpired
    \/ ReplayStep

vars == <<online, wsVars, msgVars, respVars, cacheVars, pageVars, assignVars,
          sortVars,
          recentVars,
          discussionVars,
          clickVars,
          sizeVars>>

Init == InitWS /\ InitMsg /\ resp = NoResponse /\ InitCache /\ InitPage /\ InitAssign
    /\ InitSort
    /\ InitRecent
    /\ InitDiscussion
    /\ InitClick
    /\ InitSize

\* The web-service call layer.
SpecWS == Init /\ [][WSActions \/ NetworkChange]_vars

\* The retry path alone: call and the handlers of performPost.
RetryActions ==
    \/ \E k \in Keys : call(k)
    \/ \E r \in requests : PostOk(r)
    \/ \E r \in requests, h \in RetryAfterHeaders : PostOverload(r, h)
    \/ \E r \in requests : PostFail(r)
    \/ CooldownExpired
    \/ ReplayStep

\* The in-flight call map alone: callAjax and performHead.
DedupActions ==
    \/ \E k \in Keys : callAjax(k)
    \/ \E k \in Keys : performHead(k)
    \/ \E r \in requests, ok \in BOOLEAN : HttpSettled(r, ok)
    \/ \E t \in dedupTimers : DedupTimeout(t)

SpecRetry == Init /\ [][RetryActions \/ NetworkChange]_vars

SpecDedup == Init /\ [][DedupActions \/ NetworkChange]_vars

\* The retry path with its timers firing: a setTimeout callback that is due
\* is run by the event loop.
SpecRetryFair == SpecRetry /\ WF_vars(CooldownExpired) /\ WF_vars(ReplayStep)

\* The message send path, the offline store and its sync.
SpecMsg == Init /\ [][MsgActions \/ NetworkChange]_vars

\* The checks of one response, for every body and preSets.
InitWithResponse ==
    InitWS /\ InitMsg /\ InitResponse /\ InitCache /\ InitPage /\ InitAssign
    /\ InitSort
    /\ InitRecent
    /\ InitDiscussion
    /\ InitClick
    /\ InitSize

SpecResponse == InitWithResponse /\ [][performPostThen]_vars

\* The reads and the invalidations of the message cache keys, over a cache
\* that earlier sessions have filled or not.
InitWithStoredCache ==
    InitWS /\ InitMsg /\ resp = NoResponse /\ InitStoredCache /\ InitPage /\ InitAssign
    /\ InitSort
    /\ InitRecent
    /\ InitDiscussion
    /\ InitClick
    /\ InitSize

SpecCache == InitWithStoredCache /\ [][CacheActions \/ NetworkChange]_vars

\* Messages deleted on the server and the cached discussions.
SpecDelete == InitWithStoredCache /\ [][DeleteActions \/ NetworkChange]_vars

\* One call of getSubmissionsUserData, for every input of the bounded sets.
SpecAssign == Init /\ [][AssignActions]_vars

\* The conversations page and the events it listens to.
SpecPage == Init /\ [][PageActions]_vars

\* The page with its pending operations answered: a request ends with a
\* response, an error or its timeout, and Angular calls ngOnInit.
SpecPageFair == SpecPage /\ WF_vars(PageAnswers) /\ WF_vars(ngOnInit)

\* One call of sortMessages, for every array of the bounded sets.
SpecSort == Init /\ [][SortActions]_vars

\* One call of getDiscussions, for every server and offline store of the
\* bounded sets.
SpecRecent == Init /\ [][RecentActions]_vars

\* One call of getDiscussion for the first page, for every number of
\* messages the server holds.
SpecDiscussion == Init /\ [][DiscussionActions]_vars

\* Clicks on message push notifications, one handled after the other.
SpecClick == Init /\ [][ClickActions]_vars

\* One call of getFileSize, for every file and handler.
SpecSize == Init /\ [][SizeActions]_vars

(***************************************************************************)
(* Properties of the web-service call layer.                               *)
(***************************************************************************)
Settled(p) == Outcome(promises, p).st /= "pending"

\* C1: of two invocations with the same method, URL and params, the second
\* made while the first was pending, the second sends no request of its own
\* and both receive the same result.
C1_Deduplication ==
    \A j \in 1..Len(calls) : \A i \in calls[j].overlapped :
        calls[j].promise /= 0 =>
            /\ \A n \in 1..Len(netLog) : netLog[n].origin /= j
            /\ (Settled(calls[i].promise) /\ Settled(calls[j].promise)) =>
                   Outcome(promises, calls[i].promise) = Outcome(promises, calls[j].promise)

\* C7: a call answered 429 is not rejected; it is appended to the retry queue
\* and its caller's promise settles only with the outcome of a later replay of
\* the same call.
C7_OverloadedCallSettlesWithReplay ==
    \A n \in 1..Len(netLog) :
        netLog[n].answer = "429" =>
            LET e == netLog[n]
                o == Outcome(promises, calls[e.origin].promise)
            IN  /\ promises[e.promise].st = "follow"
                /\ \E k \in 1..Len(arrived) : arrived[k] = promises[e.promise].val
                /\ o.st /= "pending" =>
                     \E m \in (n + 1)..Len(netLog) :
                        /\ netLog[m].origin = e.origin
                        /\ netLog[m].key = e.key
                        /\ netLog[m].deferred /= 0
                        /\ \/ netLog[m].answer = "ok" /\ o = Resolved(m)
                           \/ netLog[m].answer = "fail" /\ o = Rejected("serverconnection")

C7_Witness ==
    \E n \in 1..Len(netLog) :
        /\ netLog[n].answer = "429"
        /\ Outcome(promises, calls[netLog[n].origin].promise).st = "resolved"

\* C8: the entries of the retry queue are re-sent in their order of arrival,
\* one per replay timer callback.
C8_ReplayIsFifo ==
    /\ Len(resent) <= Len(arrived)
    /\ resent = SubSeq(arrived, 1, Len(resent))
    /\ Len(resent) = replaySteps

C8_Witness ==
    /\ Len(resent) >= 2
    /\ \E m, n \in 1..Len(netLog) :
        /\ m < n
        /\ netLog[m].deferred = resent[1] /\ netLog[n].deferred = resent[2]
        /\ netLog[m].origin /= netLog[n].origin

\* C9: no call of the retry queue is re-sent while a cooldown is in progress
\* (retryTimeout /= 0).
C9_CooldownGatesReplay == ~resentLocked

\* C10: at most one cooldown timer is pending, and one is pending exactly
\* when retryTimeout /= 0.
C10_SingleCooldownTimer ==
    /\ cooldownTimers \in {0, 1}
    /\ (cooldownTimers = 1) <=> (retryTimeout /= 0)

\* A second 429 arrived during the cooldown the first one started.
C10_Witness ==
    /\ n429 >= 2
    /\ resent = <<>>
    /\ Len(retryCalls) >= 2
    /\ cooldownTimers = 1

\* The requests of invocation j and the retry-queue entries made for it.
RequestsOf(j) == {n \in 1..Len(netLog) : netLog[n].origin = j}

InSeq(x, seq) == \E k \in 1..Len(seq) : seq[k] = x

\* C11: a call() issued while the retry queue is not empty (and the device is
\* online) appends itself to the retry queue and sends no request in that
\* step.
C11_CallJoinsNonEmptyQueue ==
    [][ (Len(calls') = Len(calls) + 1 /\ calls'[Len(calls')].kind = "call"
         /\ online /\ Len(retryCalls) > 0)
        => /\ Len(retryCalls') = Len(retryCalls) + 1
           /\ SubSeq(retryCalls', 1, Len(retryCalls)) = retryCalls
           /\ retryCalls'[Len(retryCalls')].origin = Len(calls')
           /\ retryCalls'[Len(retryCalls')].deferred = calls'[Len(calls')].promise
           /\ netLog' = netLog /\ requests' = requests ]_vars

\* An invocation of call() that went to the retry queue directly and has not
\* been re-sent yet, behind an entry a 429 answer had put there.
C11_Witness ==
    \E j \in 1..Len(calls) :
        /\ calls[j].kind = "call" /\ calls[j].promise /= 0
        /\ RequestsOf(j) = {}
        /\ Len(retryCalls) >= 2
        /\ retryCalls[Len(retryCalls)].deferred = calls[j].promise

\* C12: a call() issued after a 429-deferred call arrived in the retry queue
\* is not sent to the network before that call is re-sent.  (Promise ids grow
\* with time: a request promise above a deferred was created after it.)
C12_NoBypass ==
    \A k \in 1..Len(arrived) : \A n \in 1..Len(netLog) :
        (netLog[n].method = "post" /\ netLog[n].deferred = 0
         /\ netLog[n].promise > arrived[k])
        => \E m \in 1..(n - 1) : netLog[m].deferred = arrived[k]

\* C13: the retry queue is never left without a timer that will serve it, and
\* every call placed in the queue is eventually re-sent.
\* The calls placed in the retry queue and not re-sent yet; they are re-sent
\* in their order of arrival, so all are re-sent once none is waiting.
Waiting == {d \in 1..Len(promises) : InSeq(d, arrived) /\ ~InSeq(d, resent)}

C13_NoQueuedCallStranded ==
    /\ [](Len(retryCalls) > 0 => (cooldownTimers > 0 \/ replayTimers /= <<>>))
    /\ (Waiting /= {}) ~> (Waiting = {})

\* The replay stopped by a new cooldown with calls left in the queue.
C13_Witness ==
    /\ Len(resent) >= 1
    /\ Len(retryCalls) >= 1
    /\ replayTimers = <<>>
    /\ cooldownTimers > 0

\* C14: a request of call() that fails with anything but a 429 answer rejects
\* the promise of its caller, and the step changes neither the retry queue
\* nor the cooldown.
C14_OnlyOverloadRetries ==
    [][ \A n \in 1..Len(netLog) :
          (netLog[n].method = "post" /\ netLog[n].answer = "none"
           /\ netLog'[n].answer = "fail")
          => /\ promises'[netLog[n].promise] = Rejected("serverconnection")
             /\ Outcome(promises', calls[netLog[n].origin].promise).st = "rejected"
             /\ UNCHANGED <<retryCalls, arrived, retryTimeout, cooldownTimers,
                            replayTimers>> ]_vars

\* A request has failed while the retry queue held a call and a cooldown was
\* in progress.
C14_Witness ==
    \E n \in 1..Len(netLog) :
        /\ netLog[n].answer = "fail"
        /\ Outcome(promises, calls[netLog[n].origin].promise).st = "rejected"
        /\ Len(retryCalls) > 0 /\ retryTimeout /= 0

\* C15, as stated: call, callAjax and syncCall invoked while the device is
\* offline fail with the network error and send no request.
C15_OfflineCallsFail ==
    \A j \in 1..Len(calls) :
        (~calls[j].online /\ calls[j].kind \in {"call", "ajax", "sync"})
        => /\ calls[j].thrown = "networkerrormsg"
           /\ calls[j].promise = 0
           /\ RequestsOf(j) = {}

\* C15, amended: call, callAjax and syncCall invoked while the device is
\* offline send no request and change neither the in-flight call map, the
\* retry queue nor the cooldown; they fail with the network error, except a
\* callAjax for which an identical call is in flight, which returns the
\* promise of that call.
C15_OfflineCallsFailUnlessInFlight ==
    [][ (Len(calls') = Len(calls) + 1 /\ ~online
         /\ calls'[Len(calls')].kind \in {"call", "ajax", "sync"})
        => LET c == calls'[Len(calls')] IN
           /\ UNCHANGED <<netLog, requests, promises, ongoingCalls, dedupTimers,
                          retryCalls, arrived, retryTimeout, cooldownTimers,
                          replayTimers>>
           /\ \/ c.thrown = "networkerrormsg" /\ c.promise = 0
              \/ /\ c.kind = "ajax" /\ c.thrown = ""
                 /\ c.promise /= 0
                 /\ c.promise = getPromiseHttp(ongoingCalls, "ajax", c.key) ]_vars

\* A callAjax made offline has failed with the network error while another
\* ajax call was in flight and saved in the map.
C15_Witness ==
    /\ \E i \in ItemIds : ongoingCalls[i] /= 0
    /\ \E j \in 1..Len(calls) :
        /\ ~calls[j].online /\ calls[j].kind = "ajax"
        /\ calls[j].thrown = "networkerrormsg" /\ calls[j].promise = 0

\* What the success callback works on: {} in place of an empty body when no
\* response is expected.
dataChecked ==
    IF Falsy(resp.body) /\ ~responseExpectedOf(resp.responseExpected)
    THEN Body("object", "{}") ELSE resp.body

responseHandled == resp.out.st /= "none"

rejectedAsInvalid == resp.out.st = "rejected" /\ resp.out.err = "errorinvalidresponse"

\* C16 as stated: a call resolves only with a value whose type is
\* typeExpected (default 'object'); a string body is parsed to a number when
\* a number is expected and to a boolean when a boolean is expected, and
\* every other body of another type is rejected as an invalid response.
C16_TypeValidation ==
    responseHandled =>
        LET t == typeExpectedOf(resp.typeExpected)
            b == resp.body
        IN  /\ resp.out.st = "resolved" => resp.out.val.type = t
            /\ (b.type = "string" /\ t = "number") =>
                    IF b.val \in {"0", "7"}
                    THEN resp.out.st = "resolved" /\ resp.out.val = Body("number", b.val)
                    ELSE resp.out.st = "rejected"
            /\ (b.type = "string" /\ t = "boolean") =>
                    IF b.val \in {"true", "false"}
                    THEN resp.out.st = "resolved" /\ resp.out.val = Body("boolean", b.val)
                    ELSE resp.out.st = "rejected"
            /\ (b.type /= t /\ ~(b.type = "string" /\ t \in {"number", "boolean"})) =>
                    rejectedAsInvalid

\* C16, amended: the same for the value the callback works on when it is not
\* empty; an empty value (null, 0, false, '') is rejected as a connection
\* error whatever type is expected, and blank text counts as the number 0.
C16_TypeValidationOfNonEmpty ==
    responseHandled =>
        LET t == typeExpectedOf(resp.typeExpected)
            d == dataChecked
        IN  /\ resp.out.st = "resolved" => resp.out.val.type = t
            /\ Falsy(d) => resp.out.st = "rejected" /\ resp.out.err = "serverconnection"
            /\ (~Falsy(d) /\ d.type = "string" /\ t = "number") =>
                    IF d.val \in {"0", "7", " "}
                    THEN /\ resp.out.st = "resolved"
                         /\ resp.out.val = Body("number", IF d.val = " " THEN "0" ELSE d.val)
                    ELSE rejectedAsInvalid
            /\ (~Falsy(d) /\ d.type = "string" /\ t = "boolean") =>
                    IF d.val \in {"true", "false"}
                    THEN resp.out.st = "resolved" /\ resp.out.val = Body("boolean", d.val)
                    ELSE rejectedAsInvalid
            /\ (~Falsy(d) /\ d.type /= t
                  /\ ~(d.type = "string" /\ t \in {"number", "boolean"})) =>
                    rejectedAsInvalid

\* A text body was parsed to the number that was expected.
C16_Witness ==
    /\ resp.out.st = "resolved"
    /\ resp.body = Body("string", "7")
    /\ resp.out.val = Body("number", "7")

\* C17: a response that carries an exception or a debuginfo field is never
\* the result of the call: the call is rejected with the error of the service.
C17_ErrorMarkerNeverSuccess ==
    (resp.out.st /= "none" /\ resp.body.val \in {"{exception}", "{debuginfo}"}) =>
        resp.out.st = "rejected" /\ resp.out.err \in {"wserror", "debuginfo"}

\* C27: with responseExpected false, a null or empty body makes the call
\* resolve, whatever type is expected.
C27_EmptyResponseAccepted ==
    ( /\ responseHandled
      /\ ~responseExpectedOf(resp.responseExpected)
      /\ resp.body \in {Body("object", "null"), Body("string", "")} )
    => resp.out.st = "resolved"

\* C18: an item of the in-flight call map is there only while its call is
\* pending and its request timeout has not elapsed, and a call that is given
\* the promise of an earlier identical call is given a pending one, never one
\* that has failed.
C18_InFlightEntryLifetime ==
    /\ [](\A i \in ItemIds :
            ongoingCalls[i] /= 0 =>
                /\ Outcome(promises, ongoingCalls[i]).st = "pending"
                /\ \E t \in dedupTimers : t.promise = ongoingCalls[i] /\ t.item = i)
    /\ [][ (Len(calls') = Len(calls) + 1 /\ calls'[Len(calls')].promise /= 0
              /\ calls'[Len(calls')].promise <= Len(promises)) =>
                Outcome(promises, calls'[Len(calls')].promise).st = "pending" ]_vars

\* An ajax call failed and a later identical call sent a request of its own.
C18_Witness ==
    \E i, j \in 1..Len(calls) :
        /\ i < j
        /\ calls[i].kind = "ajax" /\ calls[j].kind = "ajax"
        /\ calls[i].key = calls[j].key
        /\ calls[i].promise /= 0 /\ calls[j].promise /= 0
        /\ calls[i].promise /= calls[j].promise
        /\ Outcome(promises, calls[i].promise).st = "rejected"
        /\ ongoingCalls[getQueueItemId("ajax", calls[j].key)] = calls[j].promise

(***************************************************************************)
(* Properties of the message cache keys.                                   *)
(***************************************************************************)
\* The entries of a key on the site an operation is invoked for.
EntriesOf(o, key) == {id \in CacheIds : id[1] = getSite(o.siteId) /\ id[2] = key}

\* Operation i completes in this step.
Completes(i) == i \in 1..Len(ops) /\ ops[i].pc /= "done" /\ ops'[i].pc = "done"

\* C19 as stated: when invalidateDiscussionsCache(siteId) completes, no entry
\* of the discussions key and none of the contacts key of that site is valid.
C19_DiscussionsAndContactsInvalid ==
    [][ \A i \in 1..Len(ops) :
            (ops[i].kind = "invalidateDiscussionsCache" /\ Completes(i)) =>
                \A id \in EntriesOf(ops[i], getCacheKeyForDiscussions)
                           \cup EntriesOf(ops[i], getCacheKeyForContacts) :
                    ~cache'[id].valid ]_vars

\* C19, amended: when invalidateDiscussionsCache(siteId) completes, no entry
\* of the contacts key of that site is valid, and an entry of its discussions
\* key is valid only if a read has stored it since the invalidation marked
\* the key; a read of the contacts that finds no valid entry while the device
\* is online makes a live request.
C19_ContactsInvalidDiscussionsNotOlder ==
    [][ /\ \A i \in 1..Len(ops) :
              (ops[i].kind = "invalidateDiscussionsCache" /\ Completes(i)) =>
                  /\ \A id \in EntriesOf(ops[i], getCacheKeyForContacts) :
                        ~cache'[id].valid
                  /\ \A id \in EntriesOf(ops[i], getCacheKeyForDiscussions) :
                        cache'[id].valid => cache'[id].at > ops'[i].markedAt
        /\ (Len(ops') = Len(ops) + 1 /\ ops'[Len(ops')].kind = "readContacts" /\ online
              /\ \A id \in EntriesOf(ops'[Len(ops')], getCacheKeyForContacts) :
                    ~cache[id].valid) =>
                ops'[Len(ops')].pc = "wait1" /\ ops'[Len(ops')].fetched ]_vars

\* The contacts were stored; invalidateDiscussionsCache has completed and a
\* later read of the contacts of that site has its request in flight.
C19_Witness ==
    \E i, r \in 1..Len(ops) :
        /\ ops[i].kind = "invalidateDiscussionsCache" /\ ops[i].pc = "done"
        /\ ops[r].kind = "readContacts" /\ getSite(ops[r].siteId) = getSite(ops[i].siteId)
        /\ ops[r].startedAt >= ops[i].doneAt
        /\ ops[r].pc = "wait1" /\ ops[r].fetched
        /\ \A id \in EntriesOf(ops[i], getCacheKeyForContacts) :
              cache[id].at = 0 /\ ~cache[id].valid

\* The time at which a completed invalidation marked a key; NoTime for a key
\* it does not mark.
MarkedAt(o, key) ==
    IF o.kind = "invalidateDiscussionCache"
    THEN IF key = getCacheKeyForDiscussion(o.user) THEN o.markedAt ELSE NoTime
    ELSE IF o.kind = "invalidateDiscussionsCache"
    THEN IF key = getCacheKeyForDiscussions THEN o.markedAt
         ELSE IF key = getCacheKeyForContacts THEN o.doneAt ELSE NoTime
    ELSE IF key = getCacheKeyForContacts THEN o.markedAt ELSE NoTime

Answered(i) ==
    /\ i \in 1..Len(ops) /\ ops[i].kind \in Invalidations
    /\ ops[i].pc \in {"key", "contacts"} /\ ops'[i].pc /= ops[i].pc

\* No entry of the key is valid on the site: each is absent or marked already.
Clear(c, site, key) ==
    \A id \in CacheIds : (id[1] = site /\ id[2] = key) => ~c[id].valid

\* The key an invalidation is at: the key of its name, and the contacts once
\* invalidateDiscussionsCache has marked the discussions.
KeyAt(o) ==
    IF o.pc = "contacts" THEN getCacheKeyForContacts
    ELSE IF o.kind = "invalidateDiscussionCache" THEN getCacheKeyForDiscussion(o.user)
    ELSE getCacheKeyForDiscussions

RunningRefreshes == {i \in 1..Len(tasks) : tasks[i].kind = "refresh" /\ Running(i)}

\* C22: at most one refresh of the conversations list runs at a time: an
\* event or a user refresh that arrives while a refresh is in progress starts
\* no second one.
C22_SingleRefresh == Cardinality(RunningRefreshes) <= 1

\* C23: whenever loaded is false the page is waiting for ngOnInit or for an
\* operation it has started, and loaded becomes true again whether the
\* invalidation, the fetch or the search succeeds or fails.
C23_RefreshReturnsToIdle ==
    /\ [](~loaded => \/ \A i \in 1..Len(tasks) : tasks[i].trigger /= "ngOnInit"
                     \/ \E i \in 1..Len(tasks) : Running(i))
    /\ (~loaded ~> loaded)

\* A refresh started by the app resume failed at its invalidation, a fetch
\* failed too, and the page is loaded.
C23_Witness ==
    /\ loaded
    /\ \E i \in 1..Len(tasks) :
          tasks[i].trigger = "resume" /\ tasks[i].pc = "done" /\ tasks[i].failed
    /\ \E i \in 1..Len(tasks) :
          tasks[i].kind = "fetch" /\ tasks[i].pc = "done" /\ tasks[i].failed

\* C30: when deleteMessageOnline(id, read) resolves for a message of the
\* discussion with a user, no entry of that discussion is valid in the cache
\* of the current site.
C30_DeleteInvalidatesDiscussion ==
    [][ \A i \in 1..Len(ops) :
          ( /\ ops[i].kind = "deleteMessageOnline" /\ ops[i].arg = ""
            /\ ops[i].pc /= "done" /\ ops'[i].pc = "done" )
          => Clear(cache', getCurrentSiteId, getCacheKeyForDiscussion(ops[i].user)) ]_vars

(***************************************************************************)
(* Properties of the message send path.                                    *)
(***************************************************************************)
\* The position of message id in the order the server accepted the
\* messages, 0 when it has not accepted it.
Accepted(id) ==
    IF \E n \in 1..Len(serverLog) : serverLog[n].id = id
    THEN CHOOSE n \in 1..Len(serverLog) : serverLog[n].id = id
    ELSE 0

Queued(id) == \E e \in store : e.id = id

SameEntity(i, j) == msgs[i].to = msgs[j].to /\ msgs[i].site = msgs[j].site

\* C2: a send request is issued by sendMessage only when the device was
\* online at the call and no message was pending for the recipient on that
\* site from the call until the request; a message sent live was invoked
\* online.
C2_LiveSendGate ==
    \A c \in 1..Len(msgs) :
        /\ msgs[c].pc = "sending" => msgs[c].onlineAtCall /\ ~msgs[c].pendingSince
        /\ msgs[c].result = "sent" => msgs[c].onlineAtCall /\ ~msgs[c].pendingSince

\* An invocation made online after an earlier message to the recipient had
\* been queued, and stored without a send request for that reason.
C2_Witness ==
    \E i, j \in 1..Len(msgs) :
        /\ i < j /\ SameEntity(i, j) /\ i \notin msgs[j].overlapped
        /\ Queued(i) /\ Queued(j)
        /\ msgs[j].onlineAtCall /\ msgs[j].answer = "none"

\* C3: when the online send fails with a web-service error (the request is
\* rejected, or the response reports msgid === -1), sendMessage rejects with
\* that error and the message is not in the offline queue.
C3_ServerRejectedNeverQueued ==
    \A c \in 1..Len(msgs) :
        isWebServiceError(msgs[c].answer) =>
            /\ msgs[c].result = "rejected"
            /\ msgs[c].err = msgs[c].answer
            /\ ~Queued(c)
            /\ Accepted(c) = 0

C3_Witness ==
    /\ \E c \in 1..Len(msgs) : msgs[c].answer = "wserror" /\ msgs[c].pc = "done"
    /\ \E c \in 1..Len(msgs) : msgs[c].answer = "msgid" /\ msgs[c].pc = "done"

\* C4, as stated: when the online send fails with an error that is not a
\* web-service error, the message is stored in the offline queue and
\* sendMessage resolves with {sent: false, message: entry}.
C4_TransientFailureQueued ==
    \A c \in 1..Len(msgs) :
        msgs[c].answer = "neterror" =>
            /\ msgs[c].result = "stored"
            /\ Queued(c) \/ Accepted(c) > 0

\* C4, amended: when the online send fails with an error that is not a
\* web-service error, sendMessage stores the message in the offline queue and
\* resolves with {sent: false, message: entry}, unless the write to the queue
\* itself fails: then it rejects with the storage error and the message is
\* neither queued nor sent.
C4_TransientFailureQueuedUnlessStorageFails ==
    \A c \in 1..Len(msgs) :
        msgs[c].answer = "neterror" =>
            \/ /\ msgs[c].result = "stored"
               /\ msgs[c].createdAt /= NoTime
               /\ Queued(c) \/ Accepted(c) > 0
            \/ /\ msgs[c].result = "rejected"
               /\ msgs[c].err = "storage"
               /\ ~Queued(c)
               /\ Accepted(c) = 0

C4_Witness ==
    \E c \in 1..Len(msgs) :
        msgs[c].answer = "neterror" /\ msgs[c].result = "stored" /\ Queued(c)

\* C5: of two sendMessage calls to the same recipient on the same site, the
\* second invoked before the first has resolved, the server does not accept
\* the second while the first is queued or before it accepts the first.
C5_SameEntityWritesSerialized ==
    \A j \in 1..Len(msgs) : \A i \in msgs[j].overlapped :
        Accepted(j) > 0 =>
            /\ Accepted(i) = 0 => msgs[i].result /= "stored"
            /\ Accepted(i) > 0 => Accepted(i) < Accepted(j)

Replayed == sync.state = "SYNCING" /\ sync' /= sync

\* C24: each replay of a batch removes from the store the replayed message
\* when the server accepted it and nothing when it failed, and goes on with
\* the rest of the batch in either case, up to its last message.
C24_PartialFailure ==
    [][ Replayed =>
          LET e == Head(sync.batch) IN
            /\ e \in store
            /\ store' \ {e} = store \ {e}
            /\ e \notin store' <=> serverLog' = Append(serverLog, [id |-> e.id, site |-> e.site])
            /\ e \in store' <=> serverLog' = serverLog
            /\ sync' = IF Len(sync.batch) = 1 THEN Idle
                       ELSE [state |-> "SYNCING", batch |-> Tail(sync.batch)] ]_vars

\* A batch is over in which an earlier stored message failed and stays in
\* the store, and a later one of the same recipient was accepted.
C24_Witness ==
    /\ sync.state = "IDLE" /\ syncFailed
    /\ \E e \in store : \E k \in 1..Len(serverLog) :
          /\ serverLog[k].id > e.id
          /\ msgs[serverLog[k].id].result = "stored"
          /\ msgs[serverLog[k].id].to = e.to /\ serverLog[k].site = e.site

(***************************************************************************)
(* Properties of sendMessage and of the failures of its collaborators.     *)
(***************************************************************************)
\* Invocation c of sendMessage settles in this step.
Settles(c) ==
    /\ c \in 1..Len(msgs')
    /\ msgs'[c].pc = "done"
    /\ c \in 1..Len(msgs) => msgs[c].pc /= "done"

\* The step writes an entry of invocation c to the offline store.
Saves(c) == \E e \in store' \ store : e.id = c

\* C25: sendMessage resolves with {sent: false} only when the message has been
\* written to the offline store; when the write fails, in whichever branch,
\* it rejects and nothing is stored or sent.
C25_FailedSaveRejects ==
    [][ \A c \in 1..MaxMsgs : Settles(c) =>
          /\ msgs'[c].result = "stored" <=> Saves(c)
          /\ msgs'[c].err = "storage" =>
                /\ msgs'[c].result = "rejected"
                /\ store' = store /\ serverLog' = serverLog
          /\ msgs'[c].result = "sent" =>
                /\ msgs'[c].err = "" /\ store' = store
                /\ serverLog' /= serverLog ]_vars

\* The write has failed in the offline branch for one message and in the
\* fallback after a lost request for another; both are rejected.
C25_Witness ==
    \E c, d \in 1..Len(msgs) :
        /\ msgs[c].err = "storage" /\ msgs[c].result = "rejected"
        /\ ~msgs[c].onlineAtCall /\ msgs[c].answer = "none"
        /\ msgs[d].err = "storage" /\ msgs[d].result = "rejected"
        /\ msgs[d].answer = "neterror"

\* C28: when the check for pending messages fails, the message is handed to
\* the offline store in the same step (stored, or rejected when that write
\* fails too) and no request for it is ever sent.
C28_FailedCheckStoresOffline ==
    /\ [](\A c \in 1..Len(msgs) : msgs[c].read = "failed" =>
              /\ msgs[c].pc = "done" /\ msgs[c].answer = "none"
              /\ msgs[c].result \in {"stored", "rejected"}
              /\ msgs[c].result = "rejected" => msgs[c].err = "storage")
    /\ [][ \A c \in 1..Len(msgs) :
              msgs[c].read = "none" /\ msgs'[c].read = "failed" =>
                  /\ serverLog' = serverLog
                  /\ msgs'[c].result = "stored" <=> Saves(c) ]_vars

\* The check failed for a recipient with nothing pending while the device
\* was online, and the message is in the store.
C28_Witness ==
    \E c \in 1..Len(msgs) :
        /\ msgs[c].read = "failed" /\ msgs[c].result = "stored"
        /\ msgs[c].onlineAtCall /\ online
        /\ \A e \in store : e.id = c

\* C29: a message is sent to and stored for the site sendMessage was called
\* for, and no other.
C29_SiteConsistency ==
    /\ \A k \in 1..Len(serverLog) : serverLog[k].site = msgs[serverLog[k].id].site
    /\ \A e \in store : e.site = msgs[e.id].site

(***************************************************************************)
(* Properties of getSubmissionsUserData.                                   *)
(***************************************************************************)
\* C26: a submission of the list passed is in the result only if its submit
\* id (userid when positive, blindid otherwise) is defined, positive and the
\* id of a participant; the submissions made up for the participants left
\* carry the id of a participant too.
C26_ParticipantListWins ==
    \A k \in 1..Len(result) :
        IF result[k].origin = 0
        THEN result[k].submitid \in request.parts
        ELSE LET submitid == submitidOf(request.submissions[result[k].origin]) IN
             /\ Defined(submitid) /\ Val(submitid) > 0
             /\ Val(submitid) \in request.parts
             /\ result[k].submitid = Val(submitid)

\* The call has resolved; a submission identified by its blind id is in the
\* result and one with the user id of no participant is not.
C26_Witness ==
    /\ apc = "resolved"
    /\ \E k \in 1..Len(result) :
          /\ result[k].origin > 0
          /\ ~Positive(request.submissions[result[k].origin].userid)
    /\ \E i \in 1..Len(request.submissions) :
          /\ Positive(request.submissions[i].userid)
          /\ Val(request.submissions[i].userid) \notin request.parts
          /\ \A k \in 1..Len(result) : result[k].origin /= i

\* C34: with blind marking no entry of the result has a user id greater than
\* 0 and none carries the full name of a participant.
C34_BlindHidesIdentities ==
    request.blind =>
        \A k \in 1..Len(result) :
            ~Positive(result[k].userid) /\ result[k].userfullname = ""

\* A blind call has resolved for named participants: a submission that came
\* with its user id is in the result under its blind id, next to a
\* submission made up for a participant.
C34_Witness ==
    /\ apc = "resolved" /\ request.blind /\ request.named
    /\ \E k \in 1..Len(result) :
          /\ result[k].origin > 0
          /\ Positive(request.submissions[result[k].origin].userid)
    /\ \E k \in 1..Len(result) : result[k].origin = 0

\* The first submission of the list whose submit id is p, 0 when there is none.
FirstMatching(p) ==
    LET matching == {i \in 1..Len(request.submissions) :
                        submitidOf(request.submissions[i]) = {p}}
    IN  IF matching = {} THEN 0
        ELSE CHOOSE i \in matching : \A j \in matching : i <= j

\* C35: once the call has resolved, every participant has exactly one entry
\* in the result: the first submission with its id, or a submission made up
\* for it when there is none.
C35_OneEntryPerParticipant ==
    apc = "resolved" =>
        \A p \in request.parts :
            /\ Cardinality({k \in 1..Len(result) : result[k].submitid = p}) = 1
            /\ \A k \in 1..Len(result) :
                  result[k].submitid = p => result[k].origin = FirstMatching(p)

(***************************************************************************)
(* Properties of sortMessages.                                             *)
(***************************************************************************)
\* The number of times message m occurs in the array.
Occurrences(array, m) == Cardinality({i \in 1..Len(array) : array[i] = m})

\* C32: the array returned holds the messages passed, each as often; in it
\* no pending message precedes a message that is not pending, and of two
\* messages of the same pending status the earlier one has no greater
\* timecreated and, at equal timecreated, no greater id.
C32_SortMessages ==
    sorted /= NotSorted =>
        /\ Len(sorted) = Len(unsorted)
        /\ \A m \in SortableMessages : Occurrences(sorted, m) = Occurrences(unsorted, m)
        /\ \A i, j \in 1..Len(sorted) : i < j =>
              /\ ~(sorted[i].pending /\ ~sorted[j].pending)
              /\ sorted[i].pending = sorted[j].pending =>
                    /\ parseInt(sorted[i].timecreated) <= parseInt(sorted[j].timecreated)
                    /\ ( /\ sorted[i].timecreated = sorted[j].timecreated
                          /\ Defined(sorted[i].id) /\ Defined(sorted[j].id) )
                       => Val(sorted[i].id) <= Val(sorted[j].id)

\* An array of a pending message followed by a sent message of time 10 and
\* a sent message of time 2 has been sorted into another order.
C32_Witness ==
    /\ sorted /= NotSorted /\ Len(unsorted) = 3 /\ sorted /= unsorted
    /\ unsorted[1].pending /\ ~unsorted[2].pending /\ ~unsorted[3].pending
    /\ unsorted[2].timecreated = "10" /\ unsorted[3].timecreated = "2"

(***************************************************************************)
(* Properties of getDiscussions.                                           *)
(***************************************************************************)
\* The messages fetched for a user.
FetchedFor(u) ==
    {m \in {fetched.received[i] : i \in 1..Len(fetched.received)}
            \cup {fetched.sent[i] : i \in 1..Len(fetched.sent)}
            \cup {fetched.offline[i] : i \in 1..Len(fetched.offline)} : m.user = u}

\* Message a is at least as recent as message b: a pending message is more
\* recent than a sent one; then the greater timecreated, then the greater id.
AsRecentAs(a, b) ==
    \/ TruthyFlag(a.pending) /\ ~TruthyFlag(b.pending)
    \/ /\ TruthyFlag(a.pending) = TruthyFlag(b.pending)
       /\ \/ a.timecreated > b.timecreated
          \/ a.timecreated = b.timecreated /\ ~Less(a.id, b.id)

\* C31: once getDiscussions has resolved, the message kept for each user is
\* one fetched for that user that is at least as recent as every other.
C31_LastMessageMostRecent ==
    dpc = "resolved" =>
        \A u \in Users : FetchedFor(u) /= {} =>
            \E m \in FetchedFor(u) :
                /\ discussions[u].id = m.id
                /\ discussions[u].timecreated = m.timecreated
                /\ discussions[u].pending = TruthyFlag(m.pending)
                /\ \A other \in FetchedFor(u) : AsRecentAs(m, other)

(***************************************************************************)
(* Properties of getDiscussion.                                            *)
(***************************************************************************)
\* The number of messages of the discussion on the server.
HeldInAll ==
    held["receivedUnread"] + held["receivedRead"] + held["sentUnread"] + held["sentRead"]

\* C33: a page that reports canLoadMore = false holds every message of the
\* discussion that the server holds.
C33_CanLoadMore ==
    (page.resolved /\ ~page.canLoadMore) => page.messages = HeldInAll


(***************************************************************************)
(* C36: removal from the in-flight call map.                               *)
(***************************************************************************)
\* The promise p is settled by this step.
SettledNow(p) ==
    /\ Outcome(promises, p).st = "pending"
    /\ Outcome(promises', p).st /= "pending"

\* C36: an item of the in-flight call map is removed only on behalf of the
\* call that registered it: in the step that removes it either the promise
\* saved under the item settles or the timer armed for that promise fires;
\* the settling of an earlier call never removes the item of a later identical
\* call that is still pending.
C36_RemovedByOwnCall ==
    [][ \A i \in ItemIds :
          (ongoingCalls[i] /= 0 /\ ongoingCalls'[i] = 0) =>
              \/ SettledNow(ongoingCalls[i])
              \/ \E t \in dedupTimers \ dedupTimers' :
                    t.promise = ongoingCalls[i] /\ t.item = i ]_vars


(***************************************************************************)
(* C37: the click on a message push notification.                          *)
(***************************************************************************)
\* C37: handleClick first attempts to invalidate the discussions cache of the
\* site of the notification and navigates only after that attempt has
\* settled; a failed invalidation is ignored: handleClick is never rejected
\* because of it, its next step is the one taken after a successful
\* invalidation, and the navigation it then makes is to the site of the
\* notification.
C37_InvalidateThenNavigate ==
    /\ [](click.pc = "rejected" => click.failedAt /= "invalidate")
    /\ [](click.pc /= "idle" =>
            /\ Len(invalidations) = click.count
            /\ invalidations[click.count] = click.notification.site)
    /\ [](click.pc \in {"navigate", "done"} =>
            /\ navigations /= <<>>
            /\ navigations[Len(navigations)].click = click.count
            /\ navigations[Len(navigations)].siteId = click.notification.site)
    /\ [][ Len(navigations') > Len(navigations) => click.invalidated /= "no" ]_vars
    /\ [][ (click.pc = "invalidate" /\ click'.pc /= "invalidate") =>
                click'.pc = "enabled" ]_vars

\* The invalidation failed and the navigation to the site of the notification
\* was made and has finished.
C37_Witness ==
    /\ click.pc = "done"
    /\ click.invalidated = "failed"
    /\ navigations /= <<>>
    /\ navigations[Len(navigations)].click = click.count
    /\ navigations[Len(navigations)].siteId = click.notification.site


(***************************************************************************)
(* C38: the size of a file.                                                *)
(***************************************************************************)
\* C38: when the file is downloadable and its handler implements getFileSize,
\* a failure of the handler's getFileSize is ignored: getFileSize is not
\* rejected because of it and is resolved with the declared filesize of the
\* file to download, or 0 when it declares none.
C38_HandlerFailureIgnored ==
    sizeCall.sizeFailed /= "no" =>
        /\ sizeCall.pc = "resolved"
        /\ sizeCall.value = declaredSize(sizeCall.downloadableFile)

====
